---- MODULE Spec2Model ----
(***************************************************************************)
(* A model of the document-editing tools of claude-skill-docx:             *)
(*   scripts/docx_find_replace.py  (_replace_in_runs, tracked_replace)     *)
(*   scripts/docx_add_comments.py  (add_comments, _inject_markers,         *)
(*                                  _patch_zip_with_comments and helpers)  *)
(*   scripts/docx_validate.py      (the checks and the exit code of main)  *)
(*   scripts/md_to_docx_py.py      (convert: style layers, title page,     *)
(*                                  render_mermaid)                        *)
(* Text is modelled by TLA+ strings; positions are 0-based as in Python.   *)
(***************************************************************************)
EXTENDS Integers, Sequences, FiniteSets, TLC

VARIABLES
    \* ---- _replace_in_runs: one call on one paragraph
    fr_pc,            \* "call" before the call, "done" after it returned
    runs_in,          \* the run texts of the paragraph when the call starts
    runs,             \* the run texts of the paragraph (mutated in place)
    find_text,        \* argument find_text
    replace_text,     \* argument replace_text
    case_sensitive,   \* argument case_sensitive
    whole_word,       \* argument whole_word
    ret,              \* the value returned by the call
    \* ---- tracked_replace: one invocation
    tr_pc,            \* "start", "loop", "done", "crashed" ("idle": not running)
    body_in,          \* the run-level nodes of word/document.xml as read
    body,             \* the same nodes in the DOM being edited
    leaves,           \* list(dom.getElementsByTagName("w:t")): the runs holding them
    leaf_i,           \* leaves already visited by the for loop
    total,            \* local total
    change_id,        \* local change_id
    now,              \* local now
    author,           \* argument author
    dry_run,          \* argument dry_run
    tr_saved,         \* pack_document has written the output package
    clock,            \* the system clock, in seconds
    \* ---- add_comments: one invocation
    ac_pc,            \* "loop", "noop" (returned without output), "saved"
    comments,         \* the manifest loaded from comments_json
    doc_in,           \* the paragraphs of the input document, as loaded
    body_paras,       \* doc.paragraphs: each the children of its w:p
    table_paras,      \* the paragraphs of the table cells, in search order
    idx,              \* manifest entries already visited by the for loop
    comment_data,     \* local comment_data
    placed,           \* local placed
    warnings,         \* the warnings printed: <<idx, kind>>
    injected,         \* history: the ids for which _inject_markers added nodes
    \* ---- _patch_zip_with_comments
    zin,              \* the entries of temp_docx: <<name, data>>, in order
    zout,             \* the entries written to output_path, in order
    invocations,      \* add-comments runs made on this package so far
    \* ---- main() of the two tools and the files they read and write
    cli_pc,           \* position in main()
    input_path,       \* args.input
    output_path,      \* args.output
    scope,            \* args.scope
    track_changes,    \* args.track_changes
    disk,             \* the file at each path
    disk_in,          \* history: the files when the tool was started
    copy_i,           \* names of zin.namelist() already copied by the patcher
    \* ---- docx_validate.py: one invocation
    val_pc,           \* "main", "exit", "traceback" ("idle": not running)
    pkg,              \* what the checks read of the file given as input
    checks,           \* local checks: the names given with --check
    check_i,          \* names of checks already visited by the for loop
    all_issues,       \* local all_issues: <<severity, message>>
    exit_code,        \* the exit status of the process (-1: still running)
    \* ---- md_to_docx_py.py: one invocation
    md_pc,            \* position in main(), convert() and render_mermaid()
    md_args,          \* args, with what the files it names hold
    markdown,         \* the input file: its docx-style comment and its tokens
    requests,         \* the module requests could be imported
    style_overrides,  \* local style_overrides of main()
    cfg,              \* local cfg of _apply_style: the effective style
    md_doc,           \* doc: the paragraphs of the document being built
    render_queue,     \* the blocks convert() still adds, in order
    tok_i,            \* blocks of render_queue already added
    mermaid_counter,  \* builder.mermaid_counter
    requests_sent,    \* requests.get calls made for the current diagram
    renders_run,      \* render runs of the local CLI for the current diagram
    resp,             \* outcome of the remote request: "none", "ok", "failed"
    rendered          \* what render_mermaid returned ("pending": not yet)

frVars == <<fr_pc, runs_in, runs, find_text, replace_text, case_sensitive,
            whole_word, ret>>

trVars == <<tr_pc, body_in, body, leaves, leaf_i, total, change_id, now, author,
            dry_run, tr_saved, clock>>

acVars == <<ac_pc, comments, doc_in, body_paras, table_paras, idx, comment_data,
            placed, warnings, injected>>

zipVars == <<zin, zout, invocations>>

fsVars == <<cli_pc, input_path, output_path, scope, track_changes, disk, disk_in,
            copy_i>>

valVars == <<val_pc, pkg, checks, check_i, all_issues, exit_code>>

mdVars == <<md_pc, md_args, markdown, requests, style_overrides, cfg, md_doc,
            render_queue, tok_i, mermaid_counter, requests_sent, renders_run,
            resp, rendered>>

toolVars == <<valVars, mdVars>>

vars == <<frVars, trVars, acVars, zipVars, fsVars, toolVars>>

(***************************************************************************)
(* Bounds of the model.                                                    *)
(***************************************************************************)
MaxRuns == 3       \* runs in a paragraph
MaxRunLen == 2     \* characters in one run
MaxTextLen == 4    \* characters in a paragraph
MaxNodes == 2      \* run-level nodes in the document given to tracked_replace
MaxClock == 2      \* seconds the clock can advance during one invocation
MaxManifest == 3   \* entries in the comment manifest
MaxInvocations == 2  \* add-comments runs chained on one package

(***************************************************************************)
(* Strings.                                                                *)
(***************************************************************************)
\* The characters of paragraph text: two letters that differ by case only,
\* and a blank (not a word character).
Alphabet == {"a", "A", " "}

\* s[i] and s[i:j], s[i:] of Python, for 0 <= i.
CharAt(s, i) == SubSeq(s, i + 1, i + 1)
Slice(s, i, j) == SubSeq(s, i + 1, j)
SliceFrom(s, i) == SubSeq(s, i + 1, Len(s))

RECURSIVE StringsUpTo(_)
StringsUpTo(n) ==
    IF n = 0 THEN {""}
    ELSE LET S == StringsUpTo(n - 1)
         IN  S \cup {s \o c : s \in S, c \in Alphabet}

\* "".join(xs)
RECURSIVE JoinFrom(_, _)
JoinFrom(xs, i) == IF i > Len(xs) THEN "" ELSE xs[i] \o JoinFrom(xs, i + 1)

Join(xs) == JoinFrom(xs, 1)

\* xs[i] of Python for -len <= i < len: a negative index counts from the end.
Item(xs, i) == xs[IF i < 0 THEN Len(xs) + i + 1 ELSE i + 1]

RECURSIVE Reversed(_)
Reversed(xs) == IF xs = <<>> THEN <<>> ELSE Append(Reversed(Tail(xs)), Head(xs))

(***************************************************************************)
(* The regular expression the tools build: re.escape(find_text), between   *)
(* two \b when whole_word, matched with re.IGNORECASE when not             *)
(* case_sensitive.                                                         *)
(***************************************************************************)
\* \w of the re module, on the characters used here.
IsWordChar(c) == c \in {"a", "A", "b", "c"}

\* Simple case folding of re.IGNORECASE.
Lower(c) == IF c = "A" THEN "a" ELSE c

SameChar(c, d, cs) == IF cs THEN c = d ELSE Lower(c) = Lower(d)

\* \b at position p of text: exactly one side is a word character.
WordBoundary(text, p) ==
    LET before == p > 0 /\ IsWordChar(CharAt(text, p - 1))
        after == p < Len(text) /\ IsWordChar(CharAt(text, p))
    IN  before # after

\* The pattern matches text at position pos.
MatchAt(text, pos, T, cs, ww) ==
    /\ pos + Len(T) <= Len(text)
    /\ \A k \in 0..(Len(T) - 1) : SameChar(CharAt(text, pos + k), CharAt(T, k), cs)
    /\ ww => WordBoundary(text, pos) /\ WordBoundary(text, pos + Len(T))

\* re.finditer(pattern, text, flags): the matches <<start, end>> found left to
\* right, each search resuming at the end of the previous match, and one
\* position further after an empty match.
RECURSIVE FindFrom(_, _, _, _, _)
FindFrom(text, pos, T, cs, ww) ==
    IF pos > Len(text) THEN <<>>
    ELSE IF MatchAt(text, pos, T, cs, ww)
         THEN <<(<<pos, pos + Len(T)>>)>>
              \o FindFrom(text, IF T = "" THEN pos + 1 ELSE pos + Len(T), T, cs, ww)
         ELSE FindFrom(text, pos + 1, T, cs, ww)

finditer(text, T, cs, ww) == FindFrom(text, 0, T, cs, ww)

(***************************************************************************)
(* _replace_in_runs                                                        *)
(***************************************************************************)
\* char_map: for every character of the paragraph its (run index, index in
\* the run); empty runs contribute nothing.
RECURSIVE CharMapFrom(_, _)
CharMapFrom(rs, r_idx) ==
    IF r_idx >= Len(rs) THEN <<>>
    ELSE [c \in 1..Len(rs[r_idx + 1]) |-> <<r_idx, c - 1>>] \o CharMapFrom(rs, r_idx + 1)

CharMap(rs) == CharMapFrom(rs, 0)

\* A plausible slip in the suffix slice: run.text[end_char:] keeps the last
\* matched character.
SuffixAfterKeepsLast(text, end_char) == SliceFrom(text, end_char)

\* run.text[end_char + 1:]
SuffixAfter(text, end_char) == SliceFrom(text, end_char + 1)

\* char_map[start] raises IndexError: start is not below len(char_map)
\* (char_map[end - 1] is then the last entry when end is 0).
MatchRaises(rs, m) == m[1] >= Len(CharMap(rs))

\* A plausible slip in the spanning case: the replacement is put in the last
\* run of the match instead of the first.
ApplyMatchIntoLast(rs, m, R) ==
    LET char_map == CharMap(rs)
        start_run == Item(char_map, m[1])[1]
        start_char == Item(char_map, m[1])[2]
        end_run == Item(char_map, m[2] - 1)[1]
        end_char == Item(char_map, m[2] - 1)[2]
    IN  [i \in 1..Len(rs) |->
            IF start_run = end_run /\ i - 1 = start_run
            THEN Slice(rs[i], 0, start_char) \o R \o SuffixAfter(rs[i], end_char)
            ELSE IF start_run # end_run /\ i - 1 = start_run
            THEN Slice(rs[i], 0, start_char)
            ELSE IF start_run # end_run /\ i - 1 = end_run
            THEN R \o SuffixAfter(rs[i], end_char)
            ELSE IF start_run < i - 1 /\ i - 1 < end_run THEN ""
            ELSE rs[i]]

\* The body of the loop over the matches: one match applied to the runs.
ApplyMatch(rs, m, R) ==
    LET char_map == CharMap(rs)
        start_run == Item(char_map, m[1])[1]
        start_char == Item(char_map, m[1])[2]
        end_run == Item(char_map, m[2] - 1)[1]
        end_char == Item(char_map, m[2] - 1)[2]
    IN  IF start_run = end_run
        THEN [i \in 1..Len(rs) |->
                  IF i - 1 = start_run
                  THEN Slice(rs[i], 0, start_char) \o R \o SuffixAfter(rs[i], end_char)
                  ELSE rs[i]]
        ELSE [i \in 1..Len(rs) |->
                  IF i - 1 = start_run THEN Slice(rs[i], 0, start_char) \o R
                  ELSE IF i - 1 = end_run THEN SuffixAfter(rs[i], end_char)
                  ELSE IF start_run < i - 1 /\ i - 1 < end_run THEN ""
                  ELSE rs[i]]

\* for match in reversed(matches): ...  (raised: an IndexError ended it)
RECURSIVE ApplyAll(_, _, _)
ApplyAll(rs, ms, R) ==
    IF ms = <<>> THEN [runs |-> rs, raised |-> FALSE]
    ELSE IF MatchRaises(rs, Head(ms)) THEN [runs |-> rs, raised |-> TRUE]
    ELSE ApplyAll(ApplyMatch(rs, Head(ms), R), Tail(ms), R)

\* The call: the runs after it, the value it returns, and whether it raised
\* instead of returning.
replace_in_runs(rs, T, R, cs, ww) ==
    IF rs = <<>> THEN [runs |-> rs, ret |-> 0, raised |-> FALSE]
    ELSE LET full_text == Join(rs)
             matches == finditer(full_text, T, cs, ww)
             applied == ApplyAll(rs, Reversed(matches), R)
         IN  IF matches = <<>> THEN [runs |-> rs, ret |-> 0, raised |-> FALSE]
             ELSE [runs |-> applied.runs,
                   ret |-> IF applied.raised THEN 0 ELSE Len(matches),
                   raised |-> applied.raised]

\* The paragraphs, search terms and replacements the call is tried on.
RunTexts == StringsUpTo(MaxRunLen)

\* The sequences of at most k runs with at most n characters in all.
RECURSIVE ParagraphsWithin(_, _)
ParagraphsWithin(k, n) ==
    IF k = 0 THEN {<<>>}
    ELSE {<<>>} \cup
         UNION {{<<s>> \o rest : rest \in ParagraphsWithin(k - 1, n - Len(s))} :
                s \in {t \in RunTexts : Len(t) <= n}}

Paragraphs == ParagraphsWithin(MaxRuns, MaxTextLen)

FindTerms == {"a", "aA", " a", "aa"}

ReplaceTerms == {"", "aca"}

FrIdle ==
    /\ fr_pc = "idle"
    /\ runs_in = <<>>
    /\ runs = <<>>
    /\ find_text = ""
    /\ replace_text = ""
    /\ case_sensitive = TRUE
    /\ whole_word = FALSE
    /\ ret = 0

TrIdle ==
    /\ tr_pc = "idle"
    /\ body_in = <<>>
    /\ body = <<>>
    /\ leaves = <<>>
    /\ leaf_i = 0
    /\ total = 0
    /\ change_id = 0
    /\ now = 0
    /\ author = ""
    /\ dry_run = FALSE
    /\ tr_saved = FALSE
    /\ clock = 0

AcIdle ==
    /\ ac_pc = "idle"
    /\ comments = <<>>
    /\ doc_in = [body |-> <<>>, tables |-> <<>>]
    /\ body_paras = <<>>
    /\ table_paras = <<>>
    /\ idx = 0
    /\ comment_data = <<>>
    /\ placed = 0
    /\ warnings = <<>>
    /\ injected = {}

ZipIdle ==
    /\ zin = <<>>
    /\ zout = <<>>
    /\ invocations = 0

\* The paths a command line can name.
Paths == {"in.docx", "out.docx"}

\* The areas of a document python-docx exposes, each a sequence of
\* paragraphs, each paragraph the texts of its runs.
NoAreas == [body |-> <<>>, tables |-> <<>>, headers |-> <<>>, footers |-> <<>>]

\* A file: the paragraphs python-docx reads from it (areas), the run-level
\* nodes of its word/document.xml (nodes), the entries of the ZIP (entries).
Absent == [exists |-> FALSE, areas |-> NoAreas, nodes |-> <<>>, entries |-> <<>>]

\* doc.save(path): the file python-docx writes for a document.
SavedDocument(areas) ==
    [exists |-> TRUE, areas |-> areas, nodes |-> <<>>, entries |-> <<>>]

\* pack_document(unpacked, path): the package zipped from the unpacked tree,
\* word/document.xml as tracked_replace wrote it and every other part (the
\* header and footer parts among them) as it was unpacked.
pack_document(nodes, parts) ==
    [exists |-> TRUE, areas |-> parts, nodes |-> nodes, entries |-> <<>>]

\* The file system after a write of file f to path.
Written(files, path, f) == [p \in Paths |-> IF p = path THEN f ELSE files[p]]

FsIdle ==
    /\ cli_pc = "idle"
    /\ input_path = "in.docx"
    /\ output_path = "out.docx"
    /\ scope = "all"
    /\ track_changes = FALSE
    /\ disk = [p \in Paths |-> Absent]
    /\ disk_in = disk
    /\ copy_i = 0

ValIdle ==
    /\ val_pc = "idle"
    /\ pkg = <<>>
    /\ checks = <<>>
    /\ check_i = 0
    /\ all_issues = <<>>
    /\ exit_code = -1

MdIdle ==
    /\ md_pc = "idle"
    /\ md_args = <<>>
    /\ markdown = <<>>
    /\ requests = FALSE
    /\ style_overrides = <<>>
    /\ cfg = <<>>
    /\ md_doc = <<>>
    /\ render_queue = <<>>
    /\ tok_i = 0
    /\ mermaid_counter = 0
    /\ requests_sent = 0
    /\ renders_run = 0
    /\ resp = "none"
    /\ rendered = "pending"

ToolsIdle == ValIdle /\ MdIdle

InitReplace ==
    /\ TrIdle
    /\ AcIdle
    /\ ZipIdle
    /\ FsIdle
    /\ fr_pc = "call"
    /\ runs_in \in Paragraphs
    /\ runs = runs_in
    /\ find_text \in FindTerms
    /\ replace_text \in ReplaceTerms
    /\ case_sensitive \in BOOLEAN
    /\ whole_word \in BOOLEAN
    /\ ret = 0
    /\ ToolsIdle

ReplaceInRuns ==
    /\ fr_pc = "call"
    /\ LET r == replace_in_runs(runs, find_text, replace_text, case_sensitive, whole_word)
       IN  /\ runs' = r.runs
           /\ ret' = r.ret
           /\ fr_pc' = IF r.raised THEN "raised" ELSE "done"
    /\ UNCHANGED <<runs_in, find_text, replace_text, case_sensitive, whole_word>>
    /\ UNCHANGED <<trVars, acVars, zipVars, fsVars>>
    /\ UNCHANGED toolVars

NextReplace == ReplaceInRuns

SpecReplace == InitReplace /\ [][NextReplace]_vars

\* _replace_in_runs with a search term as long as three runs, so that a
\* match can span a run from its first to its last character.
SpanTerms == {"a", "aAa"}

InitSpan ==
    /\ TrIdle
    /\ AcIdle
    /\ ZipIdle
    /\ FsIdle
    /\ fr_pc = "call"
    /\ runs_in \in Paragraphs
    /\ runs = runs_in
    /\ find_text \in SpanTerms
    /\ replace_text \in ReplaceTerms
    /\ case_sensitive \in BOOLEAN
    /\ whole_word = FALSE
    /\ ret = 0
    /\ ToolsIdle

SpecSpan == InitSpan /\ [][NextReplace]_vars

(***************************************************************************)
(* C1  After _replace_in_runs, the concatenation of the run texts is the   *)
(* concatenation before the call with every match of the search term,      *)
(* found left to right without overlap on the pre-edit text, replaced by   *)
(* the literal replacement; the returned count is the number of matches.   *)
(***************************************************************************)
\* The text with every match from position pos on replaced, built left to
\* right; the number of matches from pos on.
RECURSIVE Substituted(_, _, _, _, _, _)
Substituted(text, pos, T, R, cs, ww) ==
    IF pos >= Len(text) THEN ""
    ELSE IF MatchAt(text, pos, T, cs, ww)
         THEN R \o Substituted(text, pos + Len(T), T, R, cs, ww)
         ELSE CharAt(text, pos) \o Substituted(text, pos + 1, T, R, cs, ww)

RECURSIVE Occurrences(_, _, _, _, _)
Occurrences(text, pos, T, cs, ww) ==
    IF pos >= Len(text) THEN 0
    ELSE IF MatchAt(text, pos, T, cs, ww)
         THEN 1 + Occurrences(text, pos + Len(T), T, cs, ww)
         ELSE Occurrences(text, pos + 1, T, cs, ww)

C1_ReplaceAll ==
    fr_pc = "done" =>
        /\ Join(runs) = Substituted(Join(runs_in), 0, find_text, replace_text,
                                    case_sensitive, whole_word)
        /\ ret = Occurrences(Join(runs_in), 0, find_text, case_sensitive, whole_word)

\* Two matches, the first spanning two runs, have been replaced.
C1_Witness ==
    /\ fr_pc = "done"
    /\ ret = 2
    /\ Len(runs_in) = 3
    /\ runs_in[1] = "a"
    /\ runs_in[2] = "Aa"
    /\ find_text = "aA"
    /\ replace_text = "aca"
    /\ runs # runs_in

(***************************************************************************)
(* tracked_replace                                                         *)
(*                                                                         *)
(* The document is the sequence of run-level nodes of word/document.xml in *)
(* document order: ordinary runs (one w:t each), and the w:del / w:ins     *)
(* fragments of tracked changes.  uid is the identity of a node of the     *)
(* input (its position there); nodes created by the tool have uid 0.       *)
(***************************************************************************)
change_id_base == 100

RunNode(text, rpr, uid) ==
    [kind |-> "r", text |-> text, rpr |-> rpr, id |-> -1, author |-> "",
     date |-> -1, uid |-> uid]

\* A slip: the timestamp taken when the fragment is built.
FragmentDateNow(captured, current) == current

\* w:date of a fragment: the local now, taken once before the loop.
FragmentDate(captured, current) == captured

\* A slip: the insertion reuses the id of its deletion.
InsertionIdSame(del_id) == del_id

\* change_id += 1 between the deletion and the insertion.
InsertionId(del_id) == del_id + 1

DelFragment(id, who, date, rpr, matched) ==
    [kind |-> "del", text |-> matched, rpr |-> rpr, id |-> id, author |-> who,
     date |-> date, uid |-> 0]

InsFragment(id, who, date, rpr, text) ==
    [kind |-> "ins", text |-> text, rpr |-> rpr, id |-> id, author |-> who,
     date |-> date, uid |-> 0]

\* children.index(r_elem) + 1, or 0 when r_elem is not a child.
IndexOfUid(children, uid) ==
    IF \E i \in 1..Len(children) : children[i].uid = uid
    THEN CHOOSE i \in 1..Len(children) : children[i].uid = uid
    ELSE 0

\* One iteration of "for match in reversed(matches)" on the run r_elem.
\* st: the children of the paragraph, the local text, change_id and total,
\* and whether insertBefore has raised NotFoundErr (r_elem is no longer a
\* child of p_elem).
TrackedMatch(st, m, r_elem, R, who, stamp, time) ==
    IF st.failed THEN st
    ELSE
    LET before == Slice(st.text, 0, m[1])
        matched == Slice(st.text, m[1], m[2])
        after == SliceFrom(st.text, m[2])
        rpr == r_elem.rpr
        del_id == st.change_id
        ins_id == InsertionId(del_id)
        date == FragmentDate(stamp, time)
        fragments ==
            (IF before # "" THEN <<RunNode(before, rpr, 0)>> ELSE <<>>)
            \o <<DelFragment(del_id, who, date, rpr, matched)>>
            \o <<InsFragment(ins_id, who, date, rpr, R)>>
            \o (IF after # "" THEN <<RunNode(after, rpr, 0)>> ELSE <<>>)
        at == IndexOfUid(st.children, r_elem.uid)
    IN  IF at = 0
        THEN [st EXCEPT !.failed = TRUE, !.total = @ + 1, !.change_id = ins_id + 1]
        ELSE [children |-> SubSeq(st.children, 1, at - 1) \o fragments
                           \o SubSeq(st.children, at + 1, Len(st.children)),
              text |-> before,
              change_id |-> ins_id + 1,
              total |-> st.total + 1,
              failed |-> FALSE]

RECURSIVE TrackedMatches(_, _, _, _, _, _, _)
TrackedMatches(st, ms, r_elem, R, who, stamp, time) ==
    IF ms = <<>> THEN st
    ELSE TrackedMatches(TrackedMatch(st, Head(ms), r_elem, R, who, stamp, time),
                        Tail(ms), r_elem, R, who, stamp, time)

\* The documents tracked_replace is tried on: runs, and deletions recorded
\* by an earlier editing session.
LeafTexts == {"a", "ba a", "Ab"}

RunProps == {"", "<w:b/>"}

EarlierDeletion(uid) ==
    [kind |-> "del", text |-> "a", rpr |-> "", id |-> change_id_base,
     author |-> "P", date |-> 0, uid |-> uid]

InputNodes(uid) ==
    {RunNode(t, f, uid) : t \in LeafTexts, f \in RunProps} \cup {EarlierDeletion(uid)}

InputBodies ==
    UNION {{b \in [1..k -> UNION {InputNodes(u) : u \in 1..k}] :
               \A i \in 1..k : b[i].uid = i} : k \in 0..MaxNodes}

TrackedFinds == {"a", "Ab"}

TrackedReplacements == {"", "c"}

\* dom.getElementsByTagName("w:t"): the runs holding a w:t, in document order
\* (the text of a w:del is a w:delText).
\* A plausible slip: only the first text leaf is taken.
TextLeavesFirstOnly(nodes, i) ==
    LET found == {k \in i..Len(nodes) : nodes[k].kind = "r"}
    IN  IF found = {} THEN <<>>
        ELSE <<nodes[CHOOSE k \in found : \A j \in found : k <= j]>>

RECURSIVE TextLeavesFrom(_, _)
TextLeavesFrom(nodes, i) ==
    IF i > Len(nodes) THEN <<>>
    ELSE (IF nodes[i].kind = "r" THEN <<nodes[i]>> ELSE <<>>)
         \o TextLeavesFrom(nodes, i + 1)

InitTracked ==
    /\ fr_pc = "idle"
    /\ runs_in = <<>>
    /\ runs = <<>>
    /\ ret = 0
    /\ find_text \in TrackedFinds
    /\ replace_text \in TrackedReplacements
    /\ case_sensitive \in BOOLEAN
    /\ whole_word \in BOOLEAN
    /\ tr_pc = "start"
    /\ body_in \in InputBodies
    /\ body = body_in
    /\ leaves = <<>>
    /\ leaf_i = 0
    /\ total = 0
    /\ change_id = 0
    /\ now = 0
    /\ author = "T"
    /\ dry_run \in BOOLEAN
    /\ tr_saved = FALSE
    /\ clock = 0
    /\ AcIdle
    /\ ZipIdle
    /\ FsIdle
    /\ ToolsIdle

\* Lines 172-185: parse, take the timestamp, list the text leaves.
TrackedStart ==
    /\ tr_pc = "start"
    /\ now' = clock
    /\ total' = 0
    /\ change_id' = change_id_base
    /\ leaves' = TextLeavesFrom(body, 1)
    /\ leaf_i' = 0
    /\ tr_pc' = "loop"
    /\ UNCHANGED <<body_in, body, author, dry_run, tr_saved, clock>>
    /\ UNCHANGED <<frVars, acVars, zipVars, fsVars>>
    /\ UNCHANGED toolVars

\* One iteration of "for t_elem in ...": lines 185-262.
TrackedLeaf ==
    /\ tr_pc = "loop"
    /\ leaf_i < Len(leaves)
    /\ LET r_elem == leaves[leaf_i + 1]
           text == r_elem.text
           matches == IF text = "" THEN <<>>
                      ELSE finditer(text, find_text, case_sensitive, whole_word)
       IN  IF matches = <<>>
           THEN UNCHANGED <<body, total, change_id, tr_pc>>
           ELSE IF dry_run
           THEN /\ total' = total + Len(matches)
                /\ UNCHANGED <<body, change_id, tr_pc>>
           ELSE LET st == TrackedMatches(
                              [children |-> body, text |-> text,
                               change_id |-> change_id, total |-> total,
                               failed |-> FALSE],
                              Reversed(matches), r_elem, replace_text, author,
                              now, clock)
                IN  /\ body' = st.children
                    /\ total' = st.total
                    /\ change_id' = st.change_id
                    /\ tr_pc' = IF st.failed THEN "crashed" ELSE "loop"
    /\ leaf_i' = leaf_i + 1
    /\ UNCHANGED <<body_in, leaves, now, author, dry_run, tr_saved, clock>>
    /\ UNCHANGED <<frVars, acVars, zipVars, fsVars>>
    /\ UNCHANGED toolVars

\* Lines 264-278: report, and unless dry_run write and pack the document.
TrackedFinish ==
    /\ tr_pc = "loop"
    /\ leaf_i = Len(leaves)
    /\ tr_saved' = ~dry_run
    /\ disk' = IF dry_run THEN disk
               ELSE Written(disk, output_path,
                            pack_document(body, disk[input_path].areas))
    /\ tr_pc' = "done"
    /\ UNCHANGED <<body_in, body, leaves, leaf_i, total, change_id, now, author,
                   dry_run, clock>>
    /\ UNCHANGED <<cli_pc, input_path, output_path, scope, track_changes,
                   disk_in, copy_i>>
    /\ UNCHANGED <<frVars, acVars, zipVars>>
    /\ UNCHANGED toolVars

\* Time passes while the tool runs.
Tick ==
    /\ tr_pc \in {"start", "loop"}
    /\ clock < MaxClock
    /\ clock' = clock + 1
    /\ UNCHANGED <<tr_pc, body_in, body, leaves, leaf_i, total, change_id, now,
                   author, dry_run, tr_saved>>
    /\ UNCHANGED <<frVars, acVars, zipVars, fsVars>>
    /\ UNCHANGED toolVars

NextTracked == TrackedStart \/ TrackedLeaf \/ TrackedFinish \/ Tick

SpecTracked == InitTracked /\ [][NextTracked]_vars

(***************************************************************************)
(* docx_find_replace.py, main: the command line, the input file, the       *)
(* output file.                                                            *)
(***************************************************************************)

\* --scope choices (line 301).
Scopes == {"body", "headers", "footers", "tables", "all"}

ScopedAreasAll(sc) == <<"body", "tables", "headers", "footers">>

\* The areas simple_replace visits for a scope, in the order of lines 101-128.
ScopedAreas(sc) ==
    (IF sc \in {"all", "body"} THEN <<"body">> ELSE <<>>)
    \o (IF sc \in {"all", "tables"} THEN <<"tables">> ELSE <<>>)
    \o (IF sc \in {"all", "headers"} THEN <<"headers">> ELSE <<>>)
    \o (IF sc \in {"all", "footers"} THEN <<"footers">> ELSE <<>>)

\* for para in ...: total += _replace_in_runs(para, ...); an exception of a
\* call ends the loop.
RECURSIVE ReplaceInParagraphs(_, _, _, _, _, _, _)
ReplaceInParagraphs(paras, i, n, T, R, cs, ww) ==
    IF i > Len(paras) THEN [paras |-> paras, total |-> n, raised |-> FALSE]
    ELSE LET r == replace_in_runs(paras[i], T, R, cs, ww)
         IN  IF r.raised THEN [paras |-> paras, total |-> n, raised |-> TRUE]
             ELSE ReplaceInParagraphs(
                      [j \in 1..Len(paras) |-> IF j = i THEN r.runs ELSE paras[j]],
                      i + 1, n + r.ret, T, R, cs, ww)

WithArea(areas, name, paras) ==
    [body    |-> IF name = "body" THEN paras ELSE areas.body,
     tables  |-> IF name = "tables" THEN paras ELSE areas.tables,
     headers |-> IF name = "headers" THEN paras ELSE areas.headers,
     footers |-> IF name = "footers" THEN paras ELSE areas.footers]

\* simple_replace, lines 98-128: the document after the loops, the count,
\* and whether a call raised.
RECURSIVE ReplaceInAreas(_, _, _, _, _, _, _, _)
ReplaceInAreas(areas, names, k, n, T, R, cs, ww) ==
    IF k > Len(names) THEN [areas |-> areas, total |-> n, raised |-> FALSE]
    ELSE LET r == ReplaceInParagraphs(areas[names[k]], 1, n, T, R, cs, ww)
         IN  IF r.raised THEN [areas |-> areas, total |-> n, raised |-> TRUE]
             ELSE ReplaceInAreas(WithArea(areas, names[k], r.paras), names,
                                 k + 1, r.total, T, R, cs, ww)

simple_replace(areas, T, R, cs, ww, sc) ==
    ReplaceInAreas(areas, ScopedAreas(sc), 1, 0, T, R, cs, ww)

\* The documents of the simple mode: no paragraph at all; text in the body;
\* a paragraph without runs and text in a table, a header and a footer; a
\* body of one blank; the search term in every area.
AreaDocuments ==
    { NoAreas,
      [body |-> << <<"a ", "Aa">> >>, tables |-> <<>>, headers |-> <<>>,
       footers |-> <<>>],
      [body |-> << <<>> >>, tables |-> << <<"a">> >>,
       headers |-> << <<"a">> >>, footers |-> << <<"aa">> >>],
      [body |-> << <<" ">> >>, tables |-> <<>>, headers |-> <<>>,
       footers |-> <<>>],
      [body |-> << <<"a">> >>, tables |-> << <<"a">> >>,
       headers |-> << <<"Aa">> >>, footers |-> << <<"a a">> >>] }

\* A file left at the output path by an earlier run.
StaleFile == SavedDocument([body |-> << <<"b">> >>, tables |-> <<>>,
                            headers |-> <<>>, footers |-> <<>>])

MainFinds == {"", "a"}

\* The header and footer parts of the documents of the tracked mode: the
\* search term is in both.
TrackedParts ==
    [body |-> <<>>, tables |-> <<>>, headers |-> << <<"a">> >>,
     footers |-> << <<"a">> >>]

\* Documents of at most one run-level node, and two of two text leaves (as
\* a body paragraph and a table cell give).
TrackedBodies ==
    {x \in InputBodies : Len(x) <= 1}
    \cup {<<RunNode("a", "", 1), RunNode("Ab", "<w:b/>", 2)>>,
          <<RunNode("Ab", "", 1), RunNode("a", "", 2)>>}

InputFiles(tracked) ==
    {Absent} \cup
    (IF tracked THEN {pack_document(b, TrackedParts) : b \in TrackedBodies}
     ELSE {SavedDocument(d) : d \in AreaDocuments})

InitMain ==
    /\ fr_pc = "idle"
    /\ runs_in = <<>>
    /\ runs = <<>>
    /\ ret = 0
    /\ find_text \in MainFinds
    /\ replace_text = "c"
    /\ case_sensitive \in BOOLEAN
    /\ whole_word \in BOOLEAN
    /\ tr_pc = "idle"
    /\ body_in = <<>>
    /\ body = <<>>
    /\ leaves = <<>>
    /\ leaf_i = 0
    /\ total = 0
    /\ change_id = 0
    /\ now = 0
    /\ author = "RIO AI"
    /\ dry_run \in BOOLEAN
    /\ tr_saved = FALSE
    /\ clock = 0
    /\ AcIdle
    /\ ZipIdle
    /\ cli_pc = "main"
    /\ input_path = "in.docx"
    /\ output_path \in Paths
    /\ track_changes \in BOOLEAN
    /\ scope \in Scopes
    /\ disk \in {[p \in Paths |-> IF p = "in.docx" THEN f ELSE g] :
                    f \in InputFiles(track_changes), g \in {Absent, StaleFile}}
    /\ disk_in = disk
    /\ copy_i = 0
    /\ ToolsIdle

\* Lines 306-308: the input is not a file.
MainNoInput ==
    /\ cli_pc = "main"
    /\ ~disk[input_path].exists
    /\ cli_pc' = "exit1"
    /\ UNCHANGED <<input_path, output_path, scope, track_changes, disk, disk_in,
                   copy_i>>
    /\ UNCHANGED <<frVars, trVars, acVars, zipVars>>
    /\ UNCHANGED toolVars

\* Lines 316-321 and simple_replace, lines 95-137: load, replace in the areas
\* of the scope, and unless dry_run save to output_path.
MainSimple ==
    /\ cli_pc = "main"
    /\ disk[input_path].exists
    /\ ~track_changes
    /\ LET r == simple_replace(disk[input_path].areas, find_text, replace_text,
                               case_sensitive, whole_word, scope)
       IN  /\ cli_pc' = IF r.raised THEN "traceback" ELSE "done"
           /\ ret' = IF r.raised THEN ret ELSE r.total
           /\ disk' = IF r.raised \/ dry_run THEN disk
                      ELSE Written(disk, output_path, SavedDocument(r.areas))
    /\ UNCHANGED <<input_path, output_path, scope, track_changes, disk_in, copy_i>>
    /\ UNCHANGED <<fr_pc, runs_in, runs, find_text, replace_text, case_sensitive,
                   whole_word>>
    /\ UNCHANGED <<trVars, acVars, zipVars>>
    /\ UNCHANGED toolVars

\* Lines 310-315 and tracked_replace, lines 158-172: unpack the input and
\* parse word/document.xml.
MainTracked ==
    /\ cli_pc = "main"
    /\ disk[input_path].exists
    /\ track_changes
    /\ cli_pc' = "tracked"
    /\ tr_pc' = "start"
    /\ body_in' = disk[input_path].nodes
    /\ body' = disk[input_path].nodes
    /\ UNCHANGED <<leaves, leaf_i, total, change_id, now, author, dry_run,
                   tr_saved, clock>>
    /\ UNCHANGED <<input_path, output_path, scope, track_changes, disk, disk_in,
                   copy_i>>
    /\ UNCHANGED <<frVars, acVars, zipVars>>
    /\ UNCHANGED toolVars

NextMain ==
    \/ MainNoInput
    \/ MainSimple
    \/ MainTracked
    \/ TrackedStart
    \/ TrackedLeaf
    \/ TrackedFinish
    \/ Tick

SpecMain == InitMain /\ [][NextMain]_vars

(***************************************************************************)
(* C2  For every text leaf with n >= 1 matches, tracked_replace (not       *)
(* dry-run) completes and replaces the leaf's run by the ordered fragment  *)
(* list: per match, in document order, the untouched prefix as an ordinary *)
(* run, a deletion holding the matched text, an insertion holding the      *)
(* replacement, and after the last match the untouched suffix; the         *)
(* original run is gone, there are n deletions and n insertions.           *)
(***************************************************************************)
Shape(node) == <<node.kind, node.text, node.rpr>>

\* The fragment list of one leaf, built left to right from position pos;
\* from is where the pending untouched text starts.
RECURSIVE LeafFragments(_, _, _, _, _, _, _, _)
LeafFragments(text, from, pos, rpr, T, R, cs, ww) ==
    IF pos >= Len(text)
    THEN IF from < Len(text) THEN <<(<<"r", SliceFrom(text, from), rpr>>)>> ELSE <<>>
    ELSE IF MatchAt(text, pos, T, cs, ww)
         THEN (IF from < pos THEN <<(<<"r", Slice(text, from, pos), rpr>>)>> ELSE <<>>)
              \o <<(<<"del", Slice(text, pos, pos + Len(T)), rpr>>)>>
              \o <<(<<"ins", R, rpr>>)>>
              \o LeafFragments(text, pos + Len(T), pos + Len(T), rpr, T, R, cs, ww)
         ELSE LeafFragments(text, from, pos + 1, rpr, T, R, cs, ww)

RECURSIVE ExpectedShapes(_, _, _, _, _, _)
ExpectedShapes(nodes, i, T, R, cs, ww) ==
    IF i > Len(nodes) THEN <<>>
    ELSE (IF nodes[i].kind = "r"
             /\ Occurrences(nodes[i].text, 0, T, cs, ww) >= 1
          THEN LeafFragments(nodes[i].text, 0, 0, nodes[i].rpr, T, R, cs, ww)
          ELSE <<Shape(nodes[i])>>)
         \o ExpectedShapes(nodes, i + 1, T, R, cs, ww)

Shapes(nodes) == [i \in 1..Len(nodes) |-> Shape(nodes[i])]

C2_EveryMatchTracked ==
    (~dry_run /\ tr_pc \in {"done", "crashed"}) =>
        /\ tr_pc = "done"
        /\ Shapes(body) = ExpectedShapes(body_in, 1, find_text, replace_text,
                                         case_sensitive, whole_word)

(***************************************************************************)
(* C10  In one tracked_replace invocation every deletion fragment with id  *)
(* k is immediately followed by an insertion fragment with id k+1, and all *)
(* fragments of the invocation carry the same author and the timestamp     *)
(* taken once at the start.                                                *)
(***************************************************************************)
IsNewFragment(node) == node.uid = 0 /\ node.kind \in {"del", "ins"}

C10_PairedFragments ==
    /\ \A i \in 1..Len(body) :
           (body[i].uid = 0 /\ body[i].kind = "del") =>
               /\ i < Len(body)
               /\ body[i + 1].uid = 0
               /\ body[i + 1].kind = "ins"
               /\ body[i + 1].id = body[i].id + 1
    /\ \A i \in 1..Len(body) :
           IsNewFragment(body[i]) => body[i].author = author /\ body[i].date = now
    /\ \A i, j \in 1..Len(body) :
           (IsNewFragment(body[i]) /\ IsNewFragment(body[j])) =>
               /\ body[i].author = body[j].author
               /\ body[i].date = body[j].date

\* Two leaves were replaced while the clock advanced between them.
C10_Witness ==
    /\ tr_pc = "done"
    /\ tr_saved
    /\ clock > now
    /\ Cardinality({i \in 1..Len(body) : body[i].uid = 0 /\ body[i].kind = "del"}) >= 2

(***************************************************************************)
(* add_comments: paragraphs and _inject_markers                            *)
(*                                                                         *)
(* A paragraph is the sequence of the children of its w:p element.  uid is *)
(* the identity of a node: lxml compares elements by identity.             *)
(***************************************************************************)
base_id == 100

Child(tag, text, id, uid) == [tag |-> tag, text |-> text, id |-> id, uid |-> uid]

\* The children of the paragraphs of the input documents.
PPr(uid) == Child("pPr", "", -1, uid)
TextRun(text, uid) == Child("r", text, -1, uid)
Hyperlink(text, uid) == Child("hyperlink", text, -1, uid)
Bookmark(uid) == Child("bookmarkStart", "", -1, uid)

\* The three nodes _inject_markers creates for comment_id.
RangeStart(comment_id) == Child("commentRangeStart", "", comment_id, 10 * comment_id + 1)
RangeEnd(comment_id) == Child("commentRangeEnd", "", comment_id, 10 * comment_id + 2)
RefRun(comment_id) == Child("r", "", comment_id, 10 * comment_id + 3)

\* Paragraph.text of python-docx: the text of the runs and of the
\* hyperlinks, in order.
RECURSIVE ParaTextFrom(_, _)
ParaTextFrom(para, i) ==
    IF i > Len(para) THEN ""
    ELSE (IF para[i].tag \in {"r", "hyperlink"} THEN para[i].text ELSE "")
         \o ParaTextFrom(para, i + 1)

ParaText(para) == ParaTextFrom(para, 1)

\* pat in s
Contains(s, pat) ==
    \E i \in 0..(Len(s) - Len(pat)) : Slice(s, i, i + Len(pat)) = pat

\* list.index(x), 0-based; list.insert(i, x) for 0 <= i <= len.
IndexOf(children, node) == (CHOOSE i \in 1..Len(children) : children[i].uid = node.uid) - 1

InsertAt(children, i, node) ==
    SubSeq(children, 1, i) \o <<node>> \o SubSeq(children, i + 1, Len(children))

\* elem.findall(w:r): the direct runs, in order.
RECURSIVE FindAllRunsFrom(_, _)
FindAllRunsFrom(children, i) ==
    IF i > Len(children) THEN <<>>
    ELSE (IF children[i].tag = "r" THEN <<children[i]>> ELSE <<>>)
         \o FindAllRunsFrom(children, i + 1)

FindAllRuns(children) == FindAllRunsFrom(children, 1)

\* A slip: the list of children taken before range_start was inserted is
\* used to locate the last run.
StaleChildren(before, after) == before

\* "Refresh children list after insert": children = list(elem).
RefreshedChildren(before, after) == after

\* The children of the paragraph after _inject_markers(para, comment_id).
inject_markers(children, comment_id) ==
    LET found_runs == FindAllRuns(children)
    IN  IF found_runs = <<>> THEN children
        ELSE
        LET range_start == RangeStart(comment_id)
            range_end == RangeEnd(comment_id)
            ref_run == RefRun(comment_id)
            first_run_idx == IndexOf(children, found_runs[1])
            elem1 == InsertAt(children, first_run_idx, range_start)
            last_run_idx == IndexOf(RefreshedChildren(children, elem1),
                                    found_runs[Len(found_runs)])
            elem2 == InsertAt(elem1, last_run_idx + 1, range_end)
            range_end_idx == IndexOf(elem2, range_end)
        IN  InsertAt(elem2, range_end_idx + 1, ref_run)

(***************************************************************************)
(* add_comments: the loop over the manifest                                *)
(***************************************************************************)
\* _gen_para_id() draws 8 random hex digits: two draws may or may not agree.
ParaIds == {"0A1B2C3D", "4E5F6A7B"}

NoReply == -100

Entry(anchor_text, text, resolved, reply_to) ==
    [anchor_text |-> anchor_text, text |-> text, resolved |-> resolved,
     reply_to |-> reply_to]

\* The manifest entries tried: a comment, replies (to index 0, to index 1,
\* out of range), a missing text; "dog" is absent from some documents.
ManifestEntries ==
    {Entry("fox", "note", FALSE, NoReply),
     Entry("fox", "agreed", TRUE, 0),
     Entry("dog", "reply", FALSE, 1),
     Entry("fox", "", FALSE, NoReply),
     Entry("dog", "note", FALSE, 7)}

Manifests == UNION {[1..k -> ManifestEntries] : k \in 0..MaxManifest}

\* The documents tried: their body paragraphs and table-cell paragraphs.
PlainPara == <<PPr(1), TextRun("the ", 2), TextRun("fox", 3)>>
SplitPara == <<Bookmark(1), TextRun("a fox", 2), Bookmark(3), TextRun(" and a dog", 4),
               Bookmark(5)>>
LinkPara == <<PPr(1), Hyperlink("fox", 2)>>
DogPara == <<TextRun("dog", 1)>>
\* A paragraph commented by an earlier session with comment id base_id.
CommentedPara ==
    <<PPr(1), Child("commentRangeStart", "", base_id, 2), TextRun("fox", 3),
      Child("commentRangeEnd", "", base_id, 4), Child("r", "", base_id, 5)>>

Documents ==
    {[body |-> <<PlainPara>>, tables |-> <<>>],
     [body |-> <<SplitPara>>, tables |-> <<>>],
     [body |-> <<DogPara, SplitPara>>, tables |-> <<PlainPara>>],
     [body |-> <<LinkPara, PlainPara>>, tables |-> <<DogPara>>],
     [body |-> <<CommentedPara>>, tables |-> <<DogPara>>],
     [body |-> <<>>, tables |-> <<SplitPara, PlainPara>>]}

\* The first paragraph whose text contains anchor_text (0: none).
FirstMatch(paras, anchor_text) ==
    IF \E i \in 1..Len(paras) : Contains(ParaText(paras[i]), anchor_text)
    THEN CHOOSE i \in 1..Len(paras) :
             /\ Contains(ParaText(paras[i]), anchor_text)
             /\ \A j \in 1..(i - 1) : ~Contains(ParaText(paras[j]), anchor_text)
    ELSE 0

\* A slip: the lower bound of the range test is left out.
InRangeNoLowerBound(parent_idx, n) == parent_idx < n

\* 0 <= parent_idx < len(comment_data)
InRange(parent_idx, n) == 0 <= parent_idx /\ parent_idx < n

\* _build_comments_extended_xml: one commentEx record per comment
\* (paraIdParent "" when the attribute is absent).
CommentEx(cd, c) ==
    LET done == IF c.resolved THEN "1" ELSE "0"
    IN  IF c.reply_to # NoReply
        THEN LET parent_idx == c.reply_to
             IN  IF InRange(parent_idx, Len(cd))
                 THEN [paraId |-> c.para_id,
                       paraIdParent |-> Item(cd, parent_idx).para_id, done |-> done]
                 ELSE [paraId |-> c.para_id, paraIdParent |-> "", done |-> done]
        ELSE [paraId |-> c.para_id, paraIdParent |-> "", done |-> done]

build_comments_extended_xml(cd) == [i \in 1..Len(cd) |-> CommentEx(cd, cd[i])]

(***************************************************************************)
(* The generated parts and the patching of the package manifests           *)
(***************************************************************************)
\* The first position >= pos where pat occurs in s (-1: nowhere).
NextOccurrence(s, pos, pat) ==
    LET found == {i \in pos..(Len(s) - Len(pat)) : Slice(s, i, i + Len(pat)) = pat}
    IN  IF found = {} THEN -1
        ELSE CHOOSE i \in found : \A j \in found : i <= j

\* s.replace(old, new), old non-empty.
RECURSIVE StrReplaceFrom(_, _, _, _)
StrReplaceFrom(s, pos, old, new) ==
    LET at == NextOccurrence(s, pos, old)
    IN  IF at < 0 THEN SliceFrom(s, pos)
        ELSE Slice(s, pos, at) \o new \o StrReplaceFrom(s, at + Len(old), old, new)

StrReplace(s, old, new) == StrReplaceFrom(s, 0, old, new)

\* _xml_escape
xml_escape(text) ==
    StrReplace(StrReplace(StrReplace(StrReplace(StrReplace(text,
        "&", "&amp;"), "<", "&lt;"), ">", "&gt;"), "\"", "&quot;"), "'", "&apos;")

\* _build_comments_xml: one w:comment record per comment.
build_comments_xml(cd) ==
    [i \in 1..Len(cd) |->
        [id |-> cd[i].id, author |-> cd[i].author, date |-> cd[i].date,
         initials |-> cd[i].initials, paraId |-> cd[i].para_id,
         text |-> xml_escape(cd[i].text)]]

\* The names of the parts.
ContentTypesName == "[Content_Types].xml"
DocRelsName == "word/_rels/document.xml.rels"

\* A slip: the override is appended without looking for an earlier one.
NotYetDeclaredAlways(content, needle) == TRUE

\* if "<needle>" not in content
NotYetDeclared(content, needle) == ~Contains(content, needle)

\* _patch_content_types, on the decoded text.
patch_content_types(data) ==
    LET comments_ct == "PartName=\"/word/comments.xml\" ContentType=\"application/vnd.openxmlformats-officedocument.wordprocessingml.comments+xml\""
        comments_ext_ct == "PartName=\"/word/commentsExtended.xml\" ContentType=\"application/vnd.openxmlformats-officedocument.wordprocessingml.commentsExtended+xml\""
        content1 == IF NotYetDeclared(data, "comments.xml")
                    THEN StrReplace(data, "</Types>",
                                    "  <Override " \o comments_ct \o "/>\n</Types>")
                    ELSE data
    IN  IF NotYetDeclared(content1, "commentsExtended.xml")
        THEN StrReplace(content1, "</Types>",
                        "  <Override " \o comments_ext_ct \o "/>\n</Types>")
        ELSE content1

\* int() and str() on decimal digits.
Digits == <<"0", "1", "2", "3", "4", "5", "6", "7", "8", "9">>

IsDigit(c) == \E d \in 1..10 : Digits[d] = c

DigitValue(c) == (CHOOSE d \in 1..10 : Digits[d] = c) - 1

RECURSIVE IntToStr(_)
IntToStr(n) == IF n < 10 THEN Digits[n + 1] ELSE IntToStr(n \div 10) \o Digits[(n % 10) + 1]

\* The end of the run of digits that starts at pos.
RECURSIVE DigitsEnd(_, _)
DigitsEnd(s, pos) ==
    IF pos < Len(s) /\ IsDigit(CharAt(s, pos)) THEN DigitsEnd(s, pos + 1) ELSE pos

RECURSIVE StrToInt(_, _, _)
StrToInt(s, from, to) ==
    IF from >= to THEN 0
    ELSE 10 * StrToInt(s, from, to - 1) + DigitValue(CharAt(s, to - 1))

\* re.findall(r'Id="rId(\d+)"', content), as the set of the numbers found.
RECURSIVE FindRids(_, _)
FindRids(content, pos) ==
    LET at == NextOccurrence(content, pos, "Id=\"rId")
    IN  IF at < 0 THEN {}
        ELSE LET from == at + 7
                 to == DigitsEnd(content, from)
             IN  IF to > from /\ to < Len(content) /\ CharAt(content, to) = "\""
                 THEN {StrToInt(content, from, to)} \cup FindRids(content, to)
                 ELSE FindRids(content, at + 1)

\* A plausible slip: the number of ids found instead of the largest.
MaxIsCount(S) == Cardinality(S)

Max(S) == CHOOSE x \in S : \A y \in S : y <= x

\* _patch_relationships, on the decoded text.
patch_relationships(data) ==
    LET rids == FindRids(data, 0)
        next_rid == IF rids # {} THEN Max(rids) + 1 ELSE 1
        comments_rel ==
            "<Relationship Id=\"rId" \o IntToStr(next_rid) \o "\" "
            \o "Type=\"http://schemas.openxmlformats.org/officeDocument/2006/relationships/comments\" "
            \o "Target=\"comments.xml\"/>"
        comments_ext_rel ==
            "<Relationship Id=\"rId" \o IntToStr(next_rid + 1) \o "\" "
            \o "Type=\"http://schemas.microsoft.com/office/2011/relationships/commentsExtended\" "
            \o "Target=\"commentsExtended.xml\"/>"
        content1 == IF NotYetDeclared(data, "relationships/comments")
                    THEN StrReplace(data, "</Relationships>",
                                    "  " \o comments_rel \o "\n</Relationships>")
                    ELSE data
    IN  IF NotYetDeclared(content1, "relationships/commentsExtended")
        THEN StrReplace(content1, "</Relationships>",
                        "  " \o comments_ext_rel \o "\n</Relationships>")
        ELSE content1

\* zin.read(item): the data of the last entry of that name.
ZipRead(z, name) ==
    z[CHOOSE i \in 1..Len(z) :
          /\ z[i].name = name
          /\ \A j \in (i + 1)..Len(z) : z[j].name # name].data

ZipEntry(name, data) == [name |-> name, data |-> data]

\* A slip: an entry is written under the name of the part it follows.
CopiedNameShifted(z, i) == z[IF i > 1 THEN i - 1 ELSE i].name

\* item, for the i-th name of zin.namelist()
CopiedName(z, i) == z[i].name

\* The entries written to output_path by _patch_zip_with_comments.
patch_zip_with_comments(temp_docx, cd) ==
    LET comments_xml == build_comments_xml(cd)
        comments_ext_xml == build_comments_extended_xml(cd)
        copied == [i \in 1..Len(temp_docx) |->
                      LET item == CopiedName(temp_docx, i)
                          data == ZipRead(temp_docx, item)
                      IN  ZipEntry(item,
                              IF item = ContentTypesName THEN patch_content_types(data)
                              ELSE IF item = DocRelsName THEN patch_relationships(data)
                              ELSE data)]
    IN  copied \o <<ZipEntry("word/comments.xml", comments_xml),
                    ZipEntry("word/commentsExtended.xml", comments_ext_xml)>>

(***************************************************************************)
(* The packages python-docx saves (temp_docx): the content-type manifest   *)
(* first, then the parts in the order of the relationships of the main     *)
(* document part, one Override and one Relationship per part.              *)
(***************************************************************************)
PartKinds ==
    {[name |-> "word/styles.xml",
      ct |-> "application/vnd.openxmlformats-officedocument.wordprocessingml.styles+xml",
      type |-> "http://schemas.openxmlformats.org/officeDocument/2006/relationships/styles",
      target |-> "styles.xml"],
     [name |-> "word/comments.xml",
      ct |-> "application/vnd.openxmlformats-officedocument.wordprocessingml.comments+xml",
      type |-> "http://schemas.openxmlformats.org/officeDocument/2006/relationships/comments",
      target |-> "comments.xml"],
     [name |-> "word/commentsExtended.xml",
      ct |-> "application/vnd.openxmlformats-officedocument.wordprocessingml.commentsExtended+xml",
      type |-> "http://schemas.microsoft.com/office/2011/relationships/commentsExtended",
      target |-> "commentsExtended.xml"],
     [name |-> "word/commentsIds.xml",
      ct |-> "application/vnd.openxmlformats-officedocument.wordprocessingml.commentsIds+xml",
      type |-> "http://schemas.microsoft.com/office/2016/09/relationships/commentsIds",
      target |-> "commentsIds.xml"]}

\* The sequences of distinct part kinds.
PartLists ==
    UNION {{ps \in [1..k -> PartKinds] :
               \A i, j \in 1..k : i # j => ps[i] # ps[j]} :
           k \in 0..Cardinality(PartKinds)}

\* The number of the first relationship of the main document part.
FirstRids == {1, 9}

RECURSIVE OverridesFrom(_, _)
OverridesFrom(ps, i) ==
    IF i > Len(ps) THEN ""
    ELSE "<Override PartName=\"/" \o ps[i].name \o "\" ContentType=\"" \o ps[i].ct
         \o "\"/>" \o OverridesFrom(ps, i + 1)

ContentTypesOf(ps) ==
    "<?xml version='1.0' encoding='UTF-8' standalone='yes'?>\n"
    \o "<Types xmlns=\"http://schemas.openxmlformats.org/package/2006/content-types\">"
    \o "<Default Extension=\"rels\" ContentType=\"application/vnd.openxmlformats-package.relationships+xml\"/>"
    \o "<Default Extension=\"xml\" ContentType=\"application/xml\"/>"
    \o "<Override PartName=\"/word/document.xml\" ContentType=\"application/vnd.openxmlformats-officedocument.wordprocessingml.document.main+xml\"/>"
    \o OverridesFrom(ps, 1)
    \o "</Types>"

RECURSIVE RelationshipsFrom(_, _, _)
RelationshipsFrom(ps, i, rid) ==
    IF i > Len(ps) THEN ""
    ELSE "<Relationship Id=\"rId" \o IntToStr(rid) \o "\" Type=\"" \o ps[i].type
         \o "\" Target=\"" \o ps[i].target \o "\"/>" \o RelationshipsFrom(ps, i + 1, rid + 1)

RelationshipsOf(ps, first_rid) ==
    "<?xml version='1.0' encoding='UTF-8' standalone='yes'?>\n"
    \o "<Relationships xmlns=\"http://schemas.openxmlformats.org/package/2006/relationships\">"
    \o RelationshipsFrom(ps, 1, first_rid)
    \o "</Relationships>"

\* The data of a part that add_comments does not generate: opaque bytes;
\* a comment part of the input holds the records of an earlier session.
PartData(name) ==
    IF name \in {"word/comments.xml", "word/commentsExtended.xml"}
    THEN <<[earlier |-> name]>>
    ELSE "<" \o name \o ">"

PackageOf(ps, first_rid) ==
    <<ZipEntry(ContentTypesName, ContentTypesOf(ps)),
      ZipEntry("_rels/.rels", PartData("_rels/.rels")),
      ZipEntry("word/document.xml", PartData("word/document.xml")),
      ZipEntry(DocRelsName, RelationshipsOf(ps, first_rid))>>
    \o [i \in 1..Len(ps) |-> ZipEntry(ps[i].name, PartData(ps[i].name))]

Packages == {PackageOf(ps, r) : ps \in PartLists, r \in FirstRids}

PartKind(name) == CHOOSE k \in PartKinds : k.name = name

\* A document with styles only.
FreshPackage == PackageOf(<<PartKind("word/styles.xml")>>, 1)

\* A document an earlier add-comments session wrote, saved by python-docx.
CommentedPackage ==
    PackageOf(<<PartKind("word/styles.xml"), PartKind("word/comments.xml"),
                PartKind("word/commentsExtended.xml")>>, 1)

\* The comment ids of the markers a document holds.
MarkerIds(paras) ==
    UNION {{paras[p][i].id : i \in {j \in 1..Len(paras[p]) : paras[p][j].id >= 0}} :
           p \in 1..Len(paras)}

EarlierIds(doc) == MarkerIds(doc.body) \cup MarkerIds(doc.tables)

\* temp_docx: what doc.save writes for the document loaded at line 88.
TempPackage(doc) == IF EarlierIds(doc) = {} THEN FreshPackage ELSE CommentedPackage

\* Document(path) followed by doc.save(temp_docx) on a package the tool
\* wrote: each part once, at the place of its first entry, with the data a
\* reader of the package gets for its name.
RECURSIVE ResavedFrom(_, _)
ResavedFrom(z, i) ==
    IF i > Len(z) THEN <<>>
    ELSE (IF \E j \in 1..(i - 1) : z[j].name = z[i].name THEN <<>>
          ELSE <<ZipEntry(z[i].name, ZipRead(z, z[i].name))>>)
         \o ResavedFrom(z, i + 1)

Resaved(z) == ResavedFrom(z, 1)

(***************************************************************************)
(* add_comments: the invocation                                            *)
(***************************************************************************)
\* The paragraphs after _inject_markers on paragraph p (0: none).
InjectInto(paras, p, cid) ==
    [i \in 1..Len(paras) |-> IF i = p THEN inject_markers(paras[i], cid) ELSE paras[i]]

InitComments ==
    /\ FrIdle
    /\ tr_pc = "idle"
    /\ body_in = <<>>
    /\ body = <<>>
    /\ leaves = <<>>
    /\ leaf_i = 0
    /\ total = 0
    /\ change_id = 0
    /\ now = 0
    /\ author = "RIO AI"
    /\ dry_run = FALSE
    /\ tr_saved = FALSE
    /\ clock = 0
    /\ ac_pc = "loop"
    /\ comments \in Manifests
    /\ doc_in \in Documents
    /\ body_paras = doc_in.body
    /\ table_paras = doc_in.tables
    /\ idx = 0
    /\ comment_data = <<>>
    /\ placed = 0
    /\ warnings = <<>>
    /\ injected = {}
    /\ zin = TempPackage(doc_in)
    /\ zout = <<>>
    /\ invocations = 0
    /\ FsIdle
    /\ ToolsIdle

\* Lines 80-82: an empty manifest.
AcNoComments ==
    /\ ac_pc = "loop"
    /\ comments = <<>>
    /\ ac_pc' = "noop"
    /\ UNCHANGED <<comments, doc_in, body_paras, table_paras, idx, comment_data,
                   placed, warnings, injected>>
    /\ UNCHANGED <<frVars, trVars, zipVars, fsVars>>
    /\ UNCHANGED toolVars

\* The record is skipped: a required field is missing (lines 100-102) or
\* no paragraph holds the anchor text (lines 132-134).
Skipped(comment, body_ps, table_ps) ==
    \/ comment.anchor_text = ""
    \/ comment.text = ""
    \/ /\ FirstMatch(body_ps, comment.anchor_text) = 0
       /\ FirstMatch(table_ps, comment.anchor_text) = 0

\* A slip: break instead of continue.
AfterSkipBreak(i, n) == n

\* continue: the loop goes on with the next record.
AfterSkip(i, n) == i + 1

\* Lines 94-146: one iteration of the loop over the manifest.
AcEntry ==
    /\ ac_pc = "loop"
    /\ idx < Len(comments)
    /\ LET comment == comments[idx + 1]
           anchor_text == comment.anchor_text
           text == comment.text
       IN  IF anchor_text = "" \/ text = ""
           THEN /\ warnings' = Append(warnings, <<idx, "missing">>)
                /\ UNCHANGED <<body_paras, table_paras, comment_data, placed, injected>>
           ELSE \E para_id \in ParaIds :
                LET cid == base_id + idx
                    b == FirstMatch(body_paras, anchor_text)
                    t == IF b = 0 THEN FirstMatch(table_paras, anchor_text) ELSE 0
                    found == b > 0 \/ t > 0
                    para == IF b > 0 THEN body_paras[b] ELSE table_paras[t]
                IN  /\ body_paras' = InjectInto(body_paras, b, cid)
                    /\ table_paras' = InjectInto(table_paras, t, cid)
                    /\ IF found
                       THEN /\ comment_data' = Append(comment_data,
                                   [id |-> cid, text |-> text, author |-> author,
                                    initials |-> "RI", date |-> now,
                                    para_id |-> para_id,
                                    resolved |-> comment.resolved,
                                    reply_to |-> comment.reply_to])
                            /\ placed' = placed + 1
                            /\ injected' = IF FindAllRuns(para) # <<>>
                                           THEN injected \cup {cid} ELSE injected
                            /\ UNCHANGED warnings
                       ELSE /\ warnings' = Append(warnings, <<idx, "anchor">>)
                            /\ UNCHANGED <<comment_data, placed, injected>>
    /\ idx' = IF Skipped(comments[idx + 1], body_paras, table_paras)
              THEN AfterSkip(idx, Len(comments))
              ELSE idx + 1
    /\ UNCHANGED <<ac_pc, comments, doc_in>>
    /\ UNCHANGED <<frVars, trVars, zipVars, fsVars>>
    /\ UNCHANGED toolVars

\* A slip: the test for an empty batch is left out.
NothingPlacedNever(n) == FALSE

\* if placed == 0
NothingPlaced(n) == n = 0

\* Lines 148-161: nothing placed, or save and patch the package.
AcFinish ==
    /\ ac_pc = "loop"
    /\ comments # <<>>
    /\ idx = Len(comments)
    /\ IF NothingPlaced(placed)
       THEN /\ ac_pc' = "noop"
            /\ UNCHANGED zipVars
       ELSE /\ ac_pc' = "saved"
            /\ zout' = patch_zip_with_comments(zin, comment_data)
            /\ invocations' = invocations + 1
            /\ UNCHANGED zin
    /\ UNCHANGED <<comments, doc_in, body_paras, table_paras, idx, comment_data,
                   placed, warnings, injected>>
    /\ UNCHANGED <<frVars, trVars, fsVars>>
    /\ UNCHANGED toolVars

NextComments == AcNoComments \/ AcEntry \/ AcFinish

SpecComments == InitComments /\ [][NextComments]_vars

(***************************************************************************)
(* _patch_zip_with_comments on the packages, run after run                 *)
(***************************************************************************)
PatchComment(id, para_id, reply_to) ==
    [id |-> id, text |-> "note", author |-> "RIO AI", initials |-> "RI", date |-> 0,
     para_id |-> para_id, resolved |-> FALSE, reply_to |-> reply_to]

\* A comment of an author, with the initials given with --initials.
AuthoredComment(id, para_id, who, initials, text) ==
    [id |-> id, text |-> text, author |-> who, initials |-> initials, date |-> 0,
     para_id |-> para_id, resolved |-> FALSE, reply_to |-> NoReply]

\* The lists of placed comments: a comment, a comment and its reply,
\* replies whose index is negative or not below the number of comments,
\* and comments whose strings hold the characters XML reserves.
PatchCommentData ==
    {<<PatchComment(base_id, "0A1B2C3D", NoReply)>>,
     <<PatchComment(base_id, "0A1B2C3D", NoReply),
       PatchComment(base_id + 1, "4E5F6A7B", 0)>>,
     <<PatchComment(base_id, "0A1B2C3D", -1),
       PatchComment(base_id + 1, "4E5F6A7B", 2)>>,
     <<AuthoredComment(base_id, "0A1B2C3D", "RIO AI", "RI", "a<b & \"c\" > 'd'")>>,
     <<AuthoredComment(base_id, "0A1B2C3D", "R&D", "RD", "note")>>,
     <<AuthoredComment(base_id, "0A1B2C3D", "Rio", "R\"I", "note")>>}

InitPatch ==
    /\ FrIdle
    /\ TrIdle
    /\ ac_pc = "idle"
    /\ comments = <<>>
    /\ doc_in = [body |-> <<>>, tables |-> <<>>]
    /\ body_paras = <<>>
    /\ table_paras = <<>>
    /\ idx = 0
    /\ comment_data \in PatchCommentData
    /\ placed = Len(comment_data)
    /\ warnings = <<>>
    /\ injected = {}
    /\ zin \in Packages
    /\ zout = <<>>
    /\ invocations = 0
    /\ FsIdle
    /\ ToolsIdle

\* Lines 217-240.
PatchZip ==
    /\ zout = <<>>
    /\ zout' = patch_zip_with_comments(zin, comment_data)
    /\ invocations' = invocations + 1
    /\ UNCHANGED zin
    /\ UNCHANGED <<frVars, trVars, acVars, fsVars>>
    /\ UNCHANGED toolVars

\* The next add-comments run takes the package just written as its input:
\* lines 88 and 153-154.
Reopen ==
    /\ zout # <<>>
    /\ invocations < MaxInvocations
    /\ zin' = Resaved(zout)
    /\ zout' = <<>>
    /\ UNCHANGED invocations
    /\ UNCHANGED <<frVars, trVars, acVars, fsVars>>
    /\ UNCHANGED toolVars

NextPatch == PatchZip \/ Reopen

SpecPatch == InitPatch /\ [][NextPatch]_vars

(***************************************************************************)
(* _patch_zip_with_comments, write by write: the archive at output_path    *)
(* while the patcher runs.                                                 *)
(***************************************************************************)

\* The file a zipfile.ZipFile opened for writing holds once it is closed
\* (the with statement closes it on an exception too).
ZipFileOf(entries) ==
    [exists |-> TRUE, areas |-> NoAreas, nodes |-> <<>>, entries |-> entries]

InitWrite ==
    /\ FrIdle
    /\ TrIdle
    /\ ac_pc = "saved"
    /\ comments = <<>>
    /\ doc_in = [body |-> <<>>, tables |-> <<>>]
    /\ body_paras = <<>>
    /\ table_paras = <<>>
    /\ idx = 0
    /\ comment_data \in PatchCommentData
    /\ placed = Len(comment_data)
    /\ warnings = <<>>
    /\ injected = {}
    /\ zin \in {FreshPackage, CommentedPackage}
    /\ zout = <<>>
    /\ invocations = 0
    /\ cli_pc = "patch"
    /\ input_path = "in.docx"
    /\ output_path = "out.docx"
    /\ scope = "all"
    /\ track_changes = FALSE
    /\ disk \in {[p \in Paths |-> IF p = "in.docx" THEN ZipFileOf(zin) ELSE g] :
                    g \in {Absent, StaleFile}}
    /\ disk_in = disk
    /\ copy_i = 0
    /\ ToolsIdle

\* Lines 225-226: zipfile.ZipFile(output_path, "w") creates or truncates the
\* file.
WriteOpen ==
    /\ cli_pc = "patch"
    /\ disk' = Written(disk, output_path, ZipFileOf(<<>>))
    /\ copy_i' = 0
    /\ cli_pc' = "copy"
    /\ UNCHANGED <<input_path, output_path, scope, track_changes, disk_in>>
    /\ UNCHANGED <<frVars, trVars, acVars, zipVars>>
    /\ UNCHANGED toolVars

\* Lines 227-235: one iteration of "for item in zin.namelist()".
WriteCopyItem ==
    /\ cli_pc = "copy"
    /\ copy_i < Len(zin)
    /\ disk' = Written(disk, output_path,
                   ZipFileOf(Append(disk[output_path].entries,
                       patch_zip_with_comments(zin, comment_data)[copy_i + 1])))
    /\ copy_i' = copy_i + 1
    /\ UNCHANGED <<cli_pc, input_path, output_path, scope, track_changes, disk_in>>
    /\ UNCHANGED <<frVars, trVars, acVars, zipVars>>
    /\ UNCHANGED toolVars

\* Lines 237-239: the two comment parts.
WriteNewParts ==
    /\ cli_pc = "copy"
    /\ copy_i = Len(zin)
    /\ disk' = Written(disk, output_path,
                   ZipFileOf(disk[output_path].entries
                       \o SubSeq(patch_zip_with_comments(zin, comment_data),
                                 Len(zin) + 1, Len(zin) + 2)))
    /\ cli_pc' = "close"
    /\ UNCHANGED <<input_path, output_path, scope, track_changes, disk_in, copy_i>>
    /\ UNCHANGED <<frVars, trVars, acVars, zipVars>>
    /\ UNCHANGED toolVars

\* The with statements of lines 225-226 end, and add_comments goes on to
\* lines 158-161.
WriteClose ==
    /\ cli_pc = "close"
    /\ cli_pc' = "done"
    /\ zout' = disk[output_path].entries
    /\ invocations' = invocations + 1
    /\ UNCHANGED zin
    /\ UNCHANGED <<input_path, output_path, scope, track_changes, disk, disk_in,
                   copy_i>>
    /\ UNCHANGED <<frVars, trVars, acVars>>
    /\ UNCHANGED toolVars

\* A read of temp_docx or a write to output_path raises (OSError): the
\* exception leaves _patch_zip_with_comments and add_comments, which have no
\* handler and remove nothing.
WriteRaises ==
    /\ cli_pc \in {"patch", "copy"}
    /\ cli_pc' = "failed"
    /\ UNCHANGED <<input_path, output_path, scope, track_changes, disk, disk_in,
                   copy_i>>
    /\ UNCHANGED <<frVars, trVars, acVars, zipVars>>
    /\ UNCHANGED toolVars

NextWrite == WriteOpen \/ WriteCopyItem \/ WriteNewParts \/ WriteClose \/ WriteRaises

SpecWrite == InitWrite /\ [][NextWrite]_vars

(***************************************************************************)
(* C3  One _inject_markers call on a paragraph with at least one direct    *)
(* run leaves what preceded the first run unchanged, puts the range-start  *)
(* immediately before the first run, keeps the children from the first to  *)
(* the last run in order and unchanged, puts the range-end immediately     *)
(* after the last run and the reference run immediately after the          *)
(* range-end, and leaves what followed unchanged; the three new nodes      *)
(* carry the comment id.                                                   *)
(***************************************************************************)
IsRunAt(children, i) == children[i].tag = "r"

FirstRunAt(children) ==
    CHOOSE i \in 1..Len(children) :
        IsRunAt(children, i) /\ \A j \in 1..(i - 1) : ~IsRunAt(children, j)

LastRunAt(children) ==
    CHOOSE i \in 1..Len(children) :
        IsRunAt(children, i) /\ \A j \in (i + 1)..Len(children) : ~IsRunAt(children, j)

MarkersPlaced(old, new, cid) ==
    LET f == FirstRunAt(old)
        l == LastRunAt(old)
    IN  /\ Len(new) = Len(old) + 3
        /\ \A i \in 1..(f - 1) : new[i] = old[i]
        /\ new[f].tag = "commentRangeStart" /\ new[f].id = cid
        /\ \A i \in f..l : new[i + 1] = old[i]
        /\ new[l + 2].tag = "commentRangeEnd" /\ new[l + 2].id = cid
        /\ new[l + 3].tag = "r" /\ new[l + 3].id = cid /\ new[l + 3].text = ""
        /\ \A i \in (l + 1)..Len(old) : new[i + 3] = old[i]

HasRun(children) == \E i \in 1..Len(children) : IsRunAt(children, i)

C3_MarkerPlacement ==
    [][/\ \A p \in 1..Len(body_paras) :
              (body_paras'[p] # body_paras[p] \/
                   (HasRun(body_paras[p]) /\ (base_id + idx) \in injected' \ injected
                    /\ p = FirstMatch(body_paras, comments[idx + 1].anchor_text)))
                  => MarkersPlaced(body_paras[p], body_paras'[p], base_id + idx)
       /\ \A p \in 1..Len(table_paras) :
              (table_paras'[p] # table_paras[p] \/
                   (HasRun(table_paras[p]) /\ (base_id + idx) \in injected' \ injected
                    /\ FirstMatch(body_paras, comments[idx + 1].anchor_text) = 0
                    /\ p = FirstMatch(table_paras, comments[idx + 1].anchor_text)))
                  => MarkersPlaced(table_paras[p], table_paras'[p], base_id + idx)]_vars

\* Markers were injected into a paragraph with children before its first
\* run, between its runs and after its last run.
C3_Witness ==
    /\ base_id \in injected
    /\ \E p \in 1..Len(body_paras) :
           /\ Len(body_paras[p]) = 8
           /\ body_paras[p][1].tag = "bookmarkStart"
           /\ body_paras[p][2].tag = "commentRangeStart"
           /\ body_paras[p][4].tag = "bookmarkStart"
           /\ body_paras[p][6].tag = "commentRangeEnd"
           /\ body_paras[p][8].tag = "bookmarkStart"

(***************************************************************************)
(* C4  For every comment id add_comments injects, the resulting document   *)
(* holds exactly one range-start and exactly one range-end with that id,   *)
(* and the start precedes the end in document order.                       *)
(***************************************************************************)
\* The document order: the paragraphs of the body, then those of the tables.
RECURSIVE FlattenFrom(_, _)
FlattenFrom(paras, p) ==
    IF p > Len(paras) THEN <<>> ELSE paras[p] \o FlattenFrom(paras, p + 1)

DocumentOrder == FlattenFrom(body_paras, 1) \o FlattenFrom(table_paras, 1)

MarkersAt(nodes, tag, cid) ==
    {i \in 1..Len(nodes) : nodes[i].tag = tag /\ nodes[i].id = cid}

PairedOnce(nodes, cid) ==
    /\ Cardinality(MarkersAt(nodes, "commentRangeStart", cid)) = 1
    /\ Cardinality(MarkersAt(nodes, "commentRangeEnd", cid)) = 1
    /\ \A i \in MarkersAt(nodes, "commentRangeStart", cid) :
           \A j \in MarkersAt(nodes, "commentRangeEnd", cid) : i < j

C4_MarkerPairing == \A cid \in injected : PairedOnce(DocumentOrder, cid)

(***************************************************************************)
(* C5  In one add_comments invocation every generated comment id differs   *)
(* from every other generated comment id and from every comment id the     *)
(* input package already holds.                                            *)
(***************************************************************************)
C5_UniqueIds ==
    /\ \A i, j \in 1..Len(comment_data) :
           i # j => comment_data[i].id # comment_data[j].id
    /\ \A i \in 1..Len(comment_data) : comment_data[i].id \notin EarlierIds(doc_in)

(***************************************************************************)
(* C6  When a manifest entry declares reply_to = i, the 0-based index of   *)
(* another entry of the manifest, the commentEx record written for it      *)
(* carries as paraIdParent the paraId generated for manifest entry i, also *)
(* when earlier manifest entries were skipped.                             *)
(***************************************************************************)
\* The manifest index of a placed comment: cid = base_id + idx.
ManifestIndex(c) == c.id - base_id

C6_ReplyParent ==
    ac_pc = "saved" =>
        LET records == ZipRead(zout, "word/commentsExtended.xml")
        IN  \A k, m \in 1..Len(comment_data) :
                (/\ comment_data[k].reply_to = ManifestIndex(comment_data[m])
                 /\ k # m)
                    => records[k].paraIdParent = comment_data[m].para_id

(***************************************************************************)
(* C7  Patching is idempotent: _patch_content_types and                    *)
(* _patch_relationships return unchanged a manifest that already           *)
(* references comments.xml and commentsExtended.xml, so after any number   *)
(* of add-comments runs the content-type manifest holds at most one        *)
(* override per comment part and the relationship manifest at most one     *)
(* relationship per comment part.                                          *)
(***************************************************************************)
\* The number of occurrences of pat in s from pos on.
RECURSIVE CountFrom(_, _, _)
CountFrom(s, pos, pat) ==
    LET at == NextOccurrence(s, pos, pat)
    IN  IF at < 0 THEN 0 ELSE 1 + CountFrom(s, at + Len(pat), pat)

Overrides(z, part) ==
    CountFrom(ZipRead(z, ContentTypesName), 0, "PartName=\"/word/" \o part \o "\"")

Relationships(z, part) ==
    CountFrom(ZipRead(z, DocRelsName), 0, "Target=\"" \o part \o "\"")

CommentParts == {"comments.xml", "commentsExtended.xml"}

PatchedOnce(z) ==
    /\ \A part \in CommentParts : Overrides(z, part) <= 1 /\ Relationships(z, part) <= 1
    /\ (\A part \in CommentParts : Overrides(z, part) >= 1)
           => patch_content_types(ZipRead(z, ContentTypesName))
                  = ZipRead(z, ContentTypesName)
    /\ (\A part \in CommentParts : Relationships(z, part) >= 1)
           => patch_relationships(ZipRead(z, DocRelsName)) = ZipRead(z, DocRelsName)

C7_PatchIdempotent ==
    /\ PatchedOnce(zin)
    /\ zout # <<>> => PatchedOnce(zout)

\* A second run has patched the package the first run wrote.
C7_Witness ==
    /\ invocations = 2
    /\ zout # <<>>
    /\ Len(zin) = 6
    /\ \A part \in CommentParts : Overrides(zout, part) = 1 /\ Relationships(zout, part) = 1

(***************************************************************************)
(* C8  After _patch_zip_with_comments the content-type manifest declares   *)
(* an override for /word/comments.xml and one for                          *)
(* /word/commentsExtended.xml, and the relationship manifest of the main   *)
(* document part holds a relationship targeting comments.xml and one       *)
(* targeting commentsExtended.xml, whatever the input manifests held.      *)
(***************************************************************************)
C8_PartsDeclared ==
    zout # <<>> =>
        \A part \in CommentParts : Overrides(zout, part) >= 1 /\ Relationships(zout, part) >= 1

(***************************************************************************)
(* C9  _patch_zip_with_comments copies every part of its input other than  *)
(* [Content_Types].xml and word/_rels/document.xml.rels to the output      *)
(* under the same name, with identical bytes and in the same order.        *)
(***************************************************************************)
C9_PartsCopied ==
    zout # <<>> =>
        /\ Len(zout) >= Len(zin)
        /\ \A i \in 1..Len(zin) :
               /\ zout[i].name = zin[i].name
               /\ zin[i].name \notin {ContentTypesName, DocRelsName}
                      => zout[i].data = zin[i].data

\* A package with three more parts, an earlier comments.xml among them, was
\* patched.
C9_Witness ==
    /\ zout # <<>>
    /\ Len(zin) = 7
    /\ \E i \in 5..7 : zin[i].name = "word/comments.xml" /\ zout[i] = zin[i]
    /\ \E i \in 5..7 : zin[i].name = "word/styles.xml" /\ zout[i] = zin[i]

(***************************************************************************)
(* C11  No id that tracked_replace allocates equals an insertion/deletion  *)
(* id already present in the input document, so that the insertion and     *)
(* deletion ids of the document stay pairwise distinct when the tool is    *)
(* applied to the output of an earlier invocation.                         *)
(***************************************************************************)
IsFragment(node) == node.kind \in {"del", "ins"}

C11_FreshChangeIds ==
    /\ \A i \in 1..Len(body) : \A j \in 1..Len(body_in) :
           (IsNewFragment(body[i]) /\ IsFragment(body_in[j]))
               => body[i].id # body_in[j].id
    /\ \A i, j \in 1..Len(body) :
           (IsNewFragment(body[i]) /\ IsFragment(body[j]) /\ i # j)
               => body[i].id # body[j].id

(***************************************************************************)
(* The two tools on one document: a tracked_replace invocation and an      *)
(* add_comments invocation, in either order.                               *)
(***************************************************************************)
InitBothTools ==
    /\ fr_pc = "idle"
    /\ runs_in = <<>>
    /\ runs = <<>>
    /\ ret = 0
    /\ find_text = "a"
    /\ replace_text = "c"
    /\ case_sensitive = TRUE
    /\ whole_word = FALSE
    /\ tr_pc = "start"
    /\ body_in \in {b \in InputBodies : Len(b) <= 1}
    /\ body = body_in
    /\ leaves = <<>>
    /\ leaf_i = 0
    /\ total = 0
    /\ change_id = 0
    /\ now = 0
    /\ author = "RIO AI"
    /\ dry_run = FALSE
    /\ tr_saved = FALSE
    /\ clock = 0
    /\ ac_pc = "loop"
    /\ comments \in {m \in Manifests : Len(m) <= 1}
    /\ doc_in \in Documents
    /\ body_paras = doc_in.body
    /\ table_paras = doc_in.tables
    /\ idx = 0
    /\ comment_data = <<>>
    /\ placed = 0
    /\ warnings = <<>>
    /\ injected = {}
    /\ zin = TempPackage(doc_in)
    /\ zout = <<>>
    /\ invocations = 0
    /\ FsIdle
    /\ ToolsIdle

NextBothTools == NextTracked \/ NextComments

SpecBothTools == InitBothTools /\ [][NextBothTools]_vars

(***************************************************************************)
(* C12  The ids tracked_replace can assign to insertion/deletion fragments *)
(* are disjoint from the ids add_comments can assign to comments.          *)
(***************************************************************************)
C12_DisjointIdSpaces ==
    \A i \in 1..Len(body) : \A k \in 1..Len(comment_data) :
        IsNewFragment(body[i]) => body[i].id # comment_data[k].id

(***************************************************************************)
(* C14  When the paragraph selected for a comment has zero runs,           *)
(* add_comments leaves it untouched and treats the comment as              *)
(* anchor-not-found: it emits the warning, does not count the comment as   *)
(* placed and writes no comment record for it.                             *)
(***************************************************************************)
\* The manifest indices handled so far.
Processed == 0..(idx - 1)

Warned(i) == \E w \in 1..Len(warnings) : warnings[w][1] = i

Recorded(i) == \E k \in 1..Len(comment_data) : comment_data[k].id = base_id + i

C14_ZeroRunsNotPlaced ==
    /\ placed = Cardinality(injected)
    /\ \A i \in Processed :
           (base_id + i) \notin injected => Warned(i) /\ ~Recorded(i)

(***************************************************************************)
(* C15  A manifest record that misses anchor_text or text, or whose anchor *)
(* text occurs in no paragraph, produces a warning and is skipped without  *)
(* aborting: every other record is still processed, and the invocation     *)
(* ends without a failure.                                                 *)
(***************************************************************************)
\* Record i of the manifest has both fields and its anchor text occurs in
\* a paragraph of the input document.
Placeable(i) == ~Skipped(comments[i + 1], doc_in.body, doc_in.tables)

RecordOf(i) == CHOOSE k \in 1..Len(comment_data) : comment_data[k].id = base_id + i

NonePlaceable == \A i \in 0..(Len(comments) - 1) : ~Placeable(i)

OutOfRange(c) ==
    c.reply_to # NoReply /\ (c.reply_to < 0 \/ c.reply_to >= Len(comment_data))

C17_OutOfRangeUnlinked ==
    zout # <<>> =>
        LET records == ZipRead(zout, "word/commentsExtended.xml")
            written == ZipRead(zout, "word/comments.xml")
        IN  /\ Len(records) = Len(comment_data)
            /\ Len(written) = Len(comment_data)
            /\ \A k \in 1..Len(comment_data) :
                   /\ records[k].paraId = comment_data[k].para_id
                   /\ written[k].id = comment_data[k].id
                   /\ OutOfRange(comment_data[k]) => records[k].paraIdParent = ""

\* A reply to index -1 and a reply to the index just past the list were
\* written without a parent.
C17_Witness ==
    /\ zout # <<>>
    /\ Len(comment_data) = 2
    /\ comment_data[1].reply_to = -1
    /\ comment_data[2].reply_to = 2
    /\ \A k \in 1..2 : ZipRead(zout, "word/commentsExtended.xml")[k].paraIdParent = ""

(***************************************************************************)
(* C20  Every XML part add_comments generates (word/comments.xml,          *)
(* word/commentsExtended.xml) or patches ([Content_Types].xml, the         *)
(* relationships of the document) is well-formed XML for every comment     *)
(* text, author and initials, also with &, <, >, and quotes in them.       *)
(***************************************************************************)
Entities == {"&amp;", "&lt;", "&gt;", "&quot;", "&apos;"}

EntityAt(s, i) ==
    \E e \in Entities : i + Len(e) <= Len(s) /\ Slice(s, i, i + Len(e)) = e

\* Character data: no "<", and every "&" starts an entity reference.
WellFormedText(s) ==
    \A i \in 0..(Len(s) - 1) :
        /\ CharAt(s, i) # "<"
        /\ CharAt(s, i) = "&" => EntityAt(s, i)

\* The value of an attribute written between double quotes.
WellFormedAttribute(s) ==
    /\ WellFormedText(s)
    /\ \A i \in 0..(Len(s) - 1) : CharAt(s, i) # "\""

PositionsOf(s, c) == {i \in 0..(Len(s) - 1) : CharAt(s, i) = c}

\* A manifest: every "<" is closed by a ">" before the next "<", the
\* quotes are paired, and the end tag of the root element comes once, last.
WellFormedManifest(s, root) ==
    LET lt == PositionsOf(s, "<")
        gt == PositionsOf(s, ">")
        end_tag == "</" \o root \o ">"
    IN  /\ Cardinality(lt) = Cardinality(gt)
        /\ \A i \in lt : \E j \in gt :
               j > i /\ \A k \in lt \cup gt : ~(i < k /\ k < j)
        /\ Cardinality(PositionsOf(s, "\"")) % 2 = 0
        /\ CountFrom(s, 0, end_tag) = 1
        /\ SliceFrom(s, Len(s) - Len(end_tag)) = end_tag

C20_WellFormedParts ==
    zout # <<>> =>
        /\ \A c \in {ZipRead(zout, "word/comments.xml")[k] : k \in 1..Len(comment_data)} :
               /\ WellFormedAttribute(c.author)
               /\ WellFormedAttribute(c.initials)
               /\ WellFormedAttribute(c.paraId)
               /\ WellFormedText(c.text)
        /\ \A c \in {ZipRead(zout, "word/commentsExtended.xml")[k] :
                        k \in 1..Len(comment_data)} :
               WellFormedAttribute(c.paraId) /\ WellFormedAttribute(c.paraIdParent)
        /\ WellFormedManifest(ZipRead(zout, ContentTypesName), "Types")
        /\ WellFormedManifest(ZipRead(zout, DocRelsName), "Relationships")

(***************************************************************************)
(* C13  find-replace given a zero-length search term on an existing input  *)
(* never ends normally and writes no file, in simple and in tracked mode.  *)
(***************************************************************************)
C13_EmptyTermRejected ==
    (find_text = "" /\ disk_in[input_path].exists) =>
        /\ cli_pc # "done"
        /\ tr_pc # "done"
        /\ disk = disk_in

(***************************************************************************)
(* C18  find-replace writes only to a path other than the input path, and  *)
(* the input file is the same after the invocation as before.              *)
(***************************************************************************)
C18_InputPreserved ==
    /\ disk # disk_in => output_path # input_path
    /\ disk[input_path] = disk_in[input_path]

(***************************************************************************)
(* C19  When the patcher of add_comments has stopped, normally or on a     *)
(* failure, output_path holds what it held before the invocation or the    *)
(* complete patched package.                                               *)
(***************************************************************************)
C19_NoPartialOutput ==
    cli_pc \in {"done", "failed"} =>
        \/ disk[output_path] = disk_in[output_path]
        \/ disk[output_path] = ZipFileOf(patch_zip_with_comments(zin, comment_data))

(***************************************************************************)
(* C22  simple_replace changes only the paragraphs of the areas its scope  *)
(* selects: the saved document holds every other area as the input had     *)
(* it, and each paragraph of a selected area as _replace_in_runs leaves    *)
(* it; scope body, tables, headers, footers select that one area, scope    *)
(* all selects the four.                                                   *)
(***************************************************************************)
AreaNames == {"body", "tables", "headers", "footers"}

Selected(name, sc) == sc = "all" \/ sc = name

SimpleSaved == cli_pc = "done" /\ ~track_changes /\ ~dry_run

C22_ScopeFrame ==
    SimpleSaved =>
        \A name \in AreaNames :
            LET before == disk_in[input_path].areas[name]
                after == disk[output_path].areas[name]
            IN  /\ Len(after) = Len(before)
                /\ \A i \in 1..Len(before) :
                       after[i] = IF Selected(name, scope)
                                  THEN replace_in_runs(before[i], find_text,
                                           replace_text, case_sensitive,
                                           whole_word).runs
                                  ELSE before[i]

C22_Witness ==
    /\ SimpleSaved
    /\ scope = "body"
    /\ disk[output_path].areas.body # disk_in[input_path].areas.body
    /\ disk[output_path].areas.tables = << <<"a">> >>
    /\ find_text = "a"

(***************************************************************************)
(* C23  With dry_run, find-replace leaves every file as it was, and the    *)
(* count it reports is the count the same invocation reports without       *)
(* dry_run, in simple and in tracked mode.                                 *)
(***************************************************************************)

\* tracked_replace without dry_run on the leaves lvs from the i-th on:
\* whether it gets to report, and the count it reports.
RECURSIVE TrackedReportFrom(_, _, _, _)
TrackedReportFrom(children, lvs, i, n) ==
    IF i > Len(lvs) THEN [reported |-> TRUE, total |-> n]
    ELSE LET text == lvs[i].text
             matches == IF text = "" THEN <<>>
                        ELSE finditer(text, find_text, case_sensitive, whole_word)
             st == TrackedMatches(
                       [children |-> children, text |-> text,
                        change_id |-> change_id_base, total |-> n,
                        failed |-> FALSE],
                       Reversed(matches), lvs[i], replace_text, author, 0, 0)
         IN  IF matches = <<>> THEN TrackedReportFrom(children, lvs, i + 1, n)
             ELSE IF st.failed THEN [reported |-> FALSE, total |-> st.total]
             ELSE TrackedReportFrom(st.children, lvs, i + 1, st.total)

TrackedReport ==
    TrackedReportFrom(disk_in[input_path].nodes,
                      TextLeavesFrom(disk_in[input_path].nodes, 1), 1, 0)

C23_DryRunCount ==
    dry_run =>
        /\ disk = disk_in
        /\ (cli_pc = "done" /\ ~track_changes) =>
               ret = simple_replace(disk_in[input_path].areas, find_text,
                                    replace_text, case_sensitive, whole_word,
                                    scope).total
        /\ tr_pc = "done" =>
               TrackedReport.reported /\ TrackedReport.total = total

(***************************************************************************)
(* C27  _replace_in_runs keeps the number of runs, and every run ends as   *)
(* its own characters outside the matches with the replacement at each     *)
(* match that starts in it: a match inside one run gives prefix +          *)
(* replacement + suffix, a match spanning runs leaves the replacement in   *)
(* its leftmost run, empties the runs strictly inside and leaves the       *)
(* remainder of its last run; a run no match touches is unchanged, and a   *)
(* call without a match changes nothing and returns 0.                     *)
(***************************************************************************)

\* The position in the paragraph text of the first character of run k.
RunOffset(rs, k) == Len(Join(SubSeq(rs, 1, k - 1)))

\* Run text from paragraph position pos up to position stop, given the
\* matches ms found on the paragraph text.
RECURSIVE RunAfterFrom(_, _, _, _, _)
RunAfterFrom(text, pos, stop, ms, R) ==
    IF pos >= stop THEN ""
    ELSE IF \E i \in 1..Len(ms) : ms[i][1] = pos
    THEN LET m == ms[CHOOSE i \in 1..Len(ms) : ms[i][1] = pos]
         IN  R \o RunAfterFrom(text, IF m[2] < stop THEN m[2] ELSE stop, stop, ms, R)
    ELSE IF \E i \in 1..Len(ms) : ms[i][1] < pos /\ pos < ms[i][2]
    THEN RunAfterFrom(text, pos + 1, stop, ms, R)
    ELSE CharAt(text, pos) \o RunAfterFrom(text, pos + 1, stop, ms, R)

RunAfter(rs, k, ms, R) ==
    RunAfterFrom(Join(rs), RunOffset(rs, k), RunOffset(rs, k) + Len(rs[k]), ms, R)

C27_LeftmostRunKeepsReplacement ==
    fr_pc = "done" =>
        LET ms == finditer(Join(runs_in), find_text, case_sensitive, whole_word)
        IN  /\ Len(runs) = Len(runs_in)
            /\ \A k \in 1..Len(runs_in) : runs[k] = RunAfter(runs_in, k, ms, replace_text)
            /\ ms = <<>> => runs = runs_in /\ ret = 0

\* One match over three runs: the replacement is in the first, the second
\* is emptied, the third keeps its remainder.
C27_Witness ==
    /\ fr_pc = "done"
    /\ runs_in = <<"a", "A", "a ">>
    /\ find_text = "aAa"
    /\ replace_text = "aca"
    /\ runs = <<"aca", "", " ">>

(***************************************************************************)
(* C28  The relationships _patch_relationships appends get the ids         *)
(* rId(max + 1) and rId(max + 2), max being the largest numeric rId suffix *)
(* of the manifest (0 when there is none): the appended ids differ from    *)
(* each other and from every id of the input, and every Relationship of    *)
(* the patched manifest has an id of its own.                              *)
(***************************************************************************)
Highest(S) == IF S = {} THEN 0 ELSE CHOOSE x \in S : \A y \in S : y <= x

RelationshipCount(manifest) == CountFrom(manifest, 0, "<Relationship ")

IdCount(manifest, n) == CountFrom(manifest, 0, "Id=\"rId" \o IntToStr(n) \o "\"")

C28_FreshRelationshipIds ==
    zout # <<>> =>
        LET before == ZipRead(zin, DocRelsName)
            after == ZipRead(zout, DocRelsName)
            old == FindRids(before, 0)
            new == FindRids(after, 0) \ old
        IN  /\ old \subseteq FindRids(after, 0)
            /\ \A n \in FindRids(after, 0) : IdCount(after, n) = 1
            /\ RelationshipCount(after) = Cardinality(FindRids(after, 0))
            /\ Cardinality(new) = RelationshipCount(after) - RelationshipCount(before)
            /\ new \subseteq {Highest(old) + 1, Highest(old) + 2}

\* Both relationships appended to a manifest whose largest id is rId9.
C28_Witness ==
    /\ zout # <<>>
    /\ FindRids(ZipRead(zin, DocRelsName), 0) = {9}
    /\ FindRids(ZipRead(zout, DocRelsName), 0) = {9, 10, 11}

(***************************************************************************)
(* C29  The package _patch_zip_with_comments writes holds at most one      *)
(* entry per part path, also when the input package already holds          *)
(* word/comments.xml or word/commentsExtended.xml.                         *)
(***************************************************************************)
C29_OneEntryPerPath ==
    \A i, j \in 1..Len(zout) : zout[i].name = zout[j].name => i = j

(***************************************************************************)
(* C30  In track-changes mode the scope plays no part: whatever its value, *)
(* a run that ends normally has gone through every text leaf of            *)
(* word/document.xml, has left no leaf with a match as it was, and has     *)
(* written the header and footer parts as the input had them.              *)
(***************************************************************************)
TrackedDone == track_changes /\ tr_pc = "done"

Issue(severity, msg) == <<severity, msg>>

CheckResult(issues) == [issues |-> issues, raised |-> FALSE]

Raised == [issues |-> <<>>, raised |-> TRUE]

\* [x for each e of the set S], in some order.
RECURSIVE IssuesFor(_, _, _)
IssuesFor(S, severity, msg) ==
    IF S = {} THEN <<>>
    ELSE LET e == CHOOSE x \in S : TRUE
         IN  <<Issue(severity, msg \o e)>> \o IssuesFor(S \ {e}, severity, msg)

\* Lines 34-78.
check_structure(p) ==
    IF ~p.is_zip THEN CheckResult(<<Issue("CRITICAL", "Not a valid ZIP/DOCX file")>>)
    ELSE CheckResult(
        (IF ContentTypesName \notin p.names
         THEN <<Issue("CRITICAL", "Missing required part: [Content_Types].xml")>>
         ELSE <<>>)
        \o (IF "word/document.xml" \notin p.names
            THEN <<Issue("CRITICAL", "Missing required part: word/document.xml")>>
            ELSE <<>>)
        \o (IF ContentTypesName \in p.names /\ "word/document.xml" \notin p.ct_refs
            THEN <<Issue("WARNING", "document.xml not referenced in Content_Types")>>
            ELSE <<>>)
        \o (IF DocRelsName \notin p.names
            THEN <<Issue("WARNING", "Missing document relationships file")>>
            ELSE <<>>)
        \o IssuesFor(p.malformed \cap p.names, "CRITICAL", "Malformed XML in "))

\* The duplicates of a list of ids: one finding for each repetition.
RECURSIVE DuplicateIssues(_, _)
DuplicateIssues(ids, i) ==
    IF i > Len(ids) THEN <<>>
    ELSE (IF \E j \in 1..(i - 1) : ids[j] = ids[i]
          THEN <<Issue("WARNING", "Duplicate comment ID: " \o ids[i])>>
          ELSE <<>>)
         \o DuplicateIssues(ids, i + 1)

\* Lines 81-164.  Parsing word/document.xml is outside any try (lines
\* 123-127): a document that does not parse raises.
check_comments(p) ==
    IF ~p.is_zip THEN CheckResult(<<Issue("CRITICAL", "Not a valid ZIP/DOCX file")>>)
    ELSE IF "word/comments.xml" \notin p.names THEN CheckResult(<<>>)
    ELSE IF "word/comments.xml" \in p.malformed
    THEN CheckResult(<<Issue("CRITICAL", "Malformed comments.xml")>>)
    ELSE IF "word/document.xml" \notin p.names
    THEN CheckResult(DuplicateIssues(p.comment_ids, 1))
    ELSE IF "word/document.xml" \in p.malformed THEN Raised
    ELSE
    LET comment_ids == {p.comment_ids[i] : i \in 1..Len(p.comment_ids)}
        marker_ids == p.starts \cup p.ends \cup p.refs
    IN  CheckResult(
            DuplicateIssues(p.comment_ids, 1)
            \o (IF marker_ids \ comment_ids # {}
                THEN <<Issue("WARNING", "Orphaned comment markers (no comment)")>>
                ELSE <<>>)
            \o (IF comment_ids \ marker_ids # {}
                THEN <<Issue("WARNING", "Comments without markers in document")>>
                ELSE <<>>)
            \o (IF p.starts \ p.ends # {}
                THEN <<Issue("WARNING", "commentRangeStart without End")>>
                ELSE <<>>)
            \o (IF p.ends \ p.starts # {}
                THEN <<Issue("WARNING", "commentRangeEnd without Start")>>
                ELSE <<>>))

\* The loop of lines 177-189 from paragraph i on.
RECURSIVE HeadingIssues(_, _, _)
HeadingIssues(levels, i, prev_level) ==
    IF i > Len(levels) THEN <<>>
    ELSE (IF levels[i] > prev_level + 1 /\ prev_level > 0
          THEN <<Issue("WARNING", "Heading level jump")>>
          ELSE <<>>)
         \o HeadingIssues(levels, i + 1, levels[i])

\* Lines 167-194.
check_headings(p) ==
    IF ~p.opens THEN CheckResult(<<Issue("CRITICAL", "Cannot open document")>>)
    ELSE CheckResult(HeadingIssues(p.levels, 1, 0))

\* Lines 197-243.
check_content_types(p) ==
    IF ~p.is_zip THEN CheckResult(<<Issue("CRITICAL", "Not a valid ZIP/DOCX file")>>)
    ELSE IF ContentTypesName \notin p.names
    THEN CheckResult(<<Issue("CRITICAL", "Missing [Content_Types].xml")>>)
    ELSE CheckResult(
        IssuesFor({part \in {"word/document.xml", "word/styles.xml",
                             "word/comments.xml"} :
                      part \in p.names /\ part \notin p.ct_refs},
                  "WARNING", "may lack Content-Type entry: ")
        \o IssuesFor(p.untyped_media, "WARNING", "may lack Default content type: "))

\* check_map, lines 268-273.
CheckNames == {"structure", "comments", "headings", "content-types"}

RunCheck(name, p) ==
    IF name = "structure" THEN check_structure(p)
    ELSE IF name = "comments" THEN check_comments(p)
    ELSE IF name = "headings" THEN check_headings(p)
    ELSE check_content_types(p)

\* A plausible slip: every finding counted as critical.
CriticalsAnySeverity(issues) == Len(issues)

\* sum(1 for sev, _ in all_issues if sev == "CRITICAL"), line 299.
Criticals(issues) ==
    Cardinality({i \in 1..Len(issues) : issues[i][1] = "CRITICAL"})

\* The packages the tool is tried on.
SoundPackage ==
    [is_file |-> TRUE, is_zip |-> TRUE,
     names |-> {ContentTypesName, "word/document.xml", DocRelsName,
                "word/styles.xml"},
     malformed |-> {},
     ct_refs |-> {"word/document.xml", "word/styles.xml"},
     opens |-> TRUE, levels |-> <<1, 2>>, comment_ids |-> <<>>,
     starts |-> {}, ends |-> {}, refs |-> {}, untyped_media |-> {}]

CommentedSound ==
    [SoundPackage EXCEPT
        !.names = @ \cup {"word/comments.xml"},
        !.ct_refs = @ \cup {"word/comments.xml"},
        !.comment_ids = <<"100">>, !.starts = {"100"}, !.ends = {"100"},
        !.refs = {"100"}]

ValidatedPackages ==
    { SoundPackage,
      CommentedSound,
      \* no file at the path
      [SoundPackage EXCEPT !.is_file = FALSE],
      \* not a ZIP archive
      [SoundPackage EXCEPT !.is_zip = FALSE, !.names = {}, !.ct_refs = {},
                           !.opens = FALSE, !.levels = <<>>],
      \* the content-type manifest is missing
      [SoundPackage EXCEPT !.names = @ \ {ContentTypesName}, !.ct_refs = {},
                           !.opens = FALSE],
      \* findings of severity WARNING only
      [SoundPackage EXCEPT !.levels = <<1, 3>>, !.untyped_media = {".png"},
                           !.names = @ \cup {"word/media/image1.png"}],
      [CommentedSound EXCEPT !.comment_ids = <<"100", "100", "102">>,
                             !.starts = {"100", "101"},
                             !.ct_refs = @ \ {"word/comments.xml"}],
      \* word/document.xml does not parse, with and without comments
      [SoundPackage EXCEPT !.malformed = {"word/document.xml"}, !.opens = FALSE],
      [CommentedSound EXCEPT !.malformed = {"word/document.xml"},
                             !.opens = FALSE],
      \* word/comments.xml does not parse
      [CommentedSound EXCEPT !.malformed = {"word/comments.xml"}] }

\* --check, split at the commas (line 263); the default of line 255 first.
DefaultChecks == <<"structure", "comments", "headings", "content-types">>

CheckLists ==
    { DefaultChecks, <<"comments">>, <<"headings">>, <<"structure", "comments">>,
      <<"content-types", "schema">>, <<"bogus">> }

InitValidate ==
    /\ FrIdle
    /\ TrIdle
    /\ AcIdle
    /\ ZipIdle
    /\ FsIdle
    /\ MdIdle
    /\ val_pc = "main"
    /\ pkg \in ValidatedPackages
    /\ checks \in CheckLists
    /\ check_i = 0
    /\ all_issues = <<>>
    /\ exit_code = -1

\* Lines 259-261.
ValNoInput ==
    /\ val_pc = "main"
    /\ ~pkg.is_file
    /\ val_pc' = "exit"
    /\ exit_code' = 1
    /\ UNCHANGED <<pkg, checks, check_i, all_issues>>
    /\ UNCHANGED <<frVars, trVars, acVars, zipVars, fsVars, mdVars>>

\* One iteration of "for check_name in checks", lines 275-297; an exception
\* of a check leaves main and ends the process with status 1.
ValCheck ==
    /\ val_pc = "main"
    /\ pkg.is_file
    /\ check_i < Len(checks)
    /\ LET check_name == checks[check_i + 1]
       IN  IF check_name \in CheckNames
           THEN LET r == RunCheck(check_name, pkg)
                IN  IF r.raised
                    THEN /\ val_pc' = "traceback"
                         /\ exit_code' = 1
                         /\ UNCHANGED all_issues
                    ELSE /\ all_issues' = all_issues \o r.issues
                         /\ UNCHANGED <<val_pc, exit_code>>
           ELSE UNCHANGED <<val_pc, exit_code, all_issues>>
    /\ check_i' = check_i + 1
    /\ UNCHANGED <<pkg, checks>>
    /\ UNCHANGED <<frVars, trVars, acVars, zipVars, fsVars, mdVars>>

\* Lines 299-311.
ValExit ==
    /\ val_pc = "main"
    /\ pkg.is_file
    /\ check_i = Len(checks)
    /\ val_pc' = "exit"
    /\ exit_code' = IF Criticals(all_issues) > 0 THEN 1 ELSE 0
    /\ UNCHANGED <<pkg, checks, check_i, all_issues>>
    /\ UNCHANGED <<frVars, trVars, acVars, zipVars, fsVars, mdVars>>

NextValidate == ValNoInput \/ ValCheck \/ ValExit

SpecValidate == InitValidate /\ [][NextValidate]_vars

(***************************************************************************)
(* C21  (as stated) When the validate tool has ended, its exit code is 1   *)
(* exactly when a check it executed returned a CRITICAL finding, and 0     *)
(* otherwise.                                                              *)
(***************************************************************************)
ValEnded == val_pc \in {"exit", "traceback"}

HasCritical == \E i \in 1..Len(all_issues) : all_issues[i][1] = "CRITICAL"

C21_ExitOneIffCritical ==
    ValEnded => /\ exit_code = 1 <=> HasCritical
                /\ exit_code = 0 <=> ~HasCritical

(***************************************************************************)
(* C21  (amended) Once the arguments are parsed, the exit code is 1        *)
(* exactly when the input is not a file, or a check raised, or a check     *)
(* that was executed returned a CRITICAL finding; it is 0 exactly when     *)
(* every executed check returned and the findings are WARNING-only or      *)
(* empty.  Under the default check list a package without                  *)
(* [Content_Types].xml gets a CRITICAL finding and exit code 1.            *)
(***************************************************************************)
C21_ExitOneIffCriticalOrFailure ==
    ValEnded =>
        /\ exit_code = 1 <=> (~pkg.is_file \/ val_pc = "traceback" \/ HasCritical)
        /\ exit_code = 0 <=> (pkg.is_file /\ val_pc = "exit" /\ ~HasCritical)
        /\ (pkg.is_file /\ pkg.is_zip /\ ContentTypesName \notin pkg.names
            /\ checks = DefaultChecks)
               => HasCritical /\ exit_code = 1

\* Exit 0 with warnings only, after the four default checks.
C21_Witness ==
    /\ val_pc = "exit"
    /\ checks = DefaultChecks
    /\ exit_code = 0
    /\ all_issues # <<>>

(***************************************************************************)
(* scripts/md_to_docx_py.py: main, the style layers and the title page of  *)
(* convert, the blocks render_tokens adds, and render_mermaid for the      *)
(* diagrams.  A document is the sequence of its body paragraphs; footers   *)
(* are not part of it.                                                     *)
(***************************************************************************)
MaxTokens == 3     \* blocks in the Markdown input

\* Python's None, where a string may stand.
None == "<None>"

\* Two of the keys of _STYLE_DEFAULTS, with their defaults.
StyleKeys == {"font_size", "color_heading"}

STYLE_DEFAULTS == [font_size |-> "10.5", color_heading |-> "2D3B4D"]

EmptyStyle == [k \in {} |-> ""]

\* d = dict(a); d.update(b)
Update(a, b) ==
    [k \in (DOMAIN a) \cup (DOMAIN b) |-> IF k \in DOMAIN b THEN b[k] ELSE a[k]]

\* The dictionaries that give some of the keys the values of full.
Partial(full) == { [k \in D |-> full[k]] : D \in SUBSET StyleKeys }

\* What each layer sets a key to, when it sets it.
TemplateStyle == [font_size |-> "11", color_heading |-> "1A3D5C"]

FileStyle == [font_size |-> "12", color_heading |-> "222222"]

InlineStyle == [font_size |-> "13", color_heading |-> "333333"]

FlagStyle == [font_size |-> "14", color_heading |-> "444444"]

\* args.style_file: whether it names a file, and what parse_style_file reads.
NoStyleFile == [is_file |-> FALSE, style |-> EmptyStyle]

StyleFiles == {NoStyleFile} \cup { [is_file |-> TRUE, style |-> f] : f \in Partial(FileStyle) }

\* A paragraph of the document: how it is styled and the text it shows.
Par(style, text) == [style |-> style, text |-> text]

\* args.template: whether it names a file, what extract_style_from_template
\* reads of it, and its body paragraphs.
NoTemplate == [is_file |-> FALSE, style |-> EmptyStyle, paragraphs |-> <<>>]

PlainTemplate(style) ==
    [is_file |-> TRUE, style |-> style,
     paragraphs |-> <<Par("Normal", "Sample text")>>]

CoverTemplate ==
    [is_file |-> TRUE, style |-> EmptyStyle,
     paragraphs |-> <<Par("Title", "Template title"), Par("Normal", ""),
                      Par("Normal", "Template date"),
                      Par("Normal", "Template validity"),
                      Par("Normal", "Template footnote")>>]

BareCoverTemplate ==
    [is_file |-> TRUE, style |-> EmptyStyle,
     paragraphs |-> <<Par("Title", "Template title")>>]

\* The block tokens mistune gives; every heading is of level 1, a mermaid
\* token is a block_code whose info is "mermaid".
TokenTypes == {"heading", "paragraph", "thematic_break", "mermaid"}

HeadingText == "Heading"

ParagraphText == "text"

Markdowns == UNION { [1..n -> TokenTypes] : n \in 0..MaxTokens }

\* Lines 1311-1320: the first level-1 heading not after a thematic break
\* (1-based; 0 is None).
H1Idx(tokens) ==
    LET S == { i \in 1..Len(tokens) :
                 /\ tokens[i] = "heading"
                 /\ \A j \in 1..(i - 1) : tokens[j] # "thematic_break" }
    IN  IF S = {} THEN 0 ELSE CHOOSE i \in S : \A j \in S : i <= j

\* Lines 1311-1320: the first thematic break (1-based; 0 is None).
FirstHrIdx(tokens) ==
    LET S == { i \in 1..Len(tokens) : tokens[i] = "thematic_break" }
    IN  IF S = {} THEN 0 ELSE CHOOSE i \in S : \A j \in S : i <= j

\* tokens[from:] with from 0-based.
TokensFrom(tokens, from) == SubSeq(tokens, from + 1, Len(tokens))

RECURSIVE JoinParagraphs(_, _)
\* Lines 1327-1333: the paragraphs among tokens[i..], flattened and joined.
JoinParagraphs(tokens, i) ==
    IF i > Len(tokens) THEN ""
    ELSE LET rest == JoinParagraphs(tokens, i + 1)
         IN  IF tokens[i] # "paragraph" THEN rest
             ELSE IF rest = "" THEN ParagraphText
             ELSE ParagraphText \o "\n" \o rest

\* Lines 1124-1129.
template_has_cover_page(paragraphs) ==
    \E i \in 1..Len(paragraphs) : paragraphs[i].style = "Title"

RECURSIVE FillAfterTitle(_, _, _, _, _)
\* Lines 1173-1199: the non-empty paragraphs after the Title take the date
\* and the preamble.
FillAfterTitle(ps, i, filled, date, preamble_text) ==
    IF i > Len(ps) THEN ps
    ELSE IF ps[i].text = "" THEN FillAfterTitle(ps, i + 1, filled, date, preamble_text)
    ELSE IF filled = 0 /\ date # None
         THEN FillAfterTitle([ps EXCEPT ![i].text = date], i + 1, 1, date,
                             preamble_text)
    ELSE IF filled <= 1 /\ preamble_text # ""
         THEN FillAfterTitle([ps EXCEPT ![i].text = preamble_text], i + 1,
                             filled + 1, date, preamble_text)
    ELSE ps

\* Lines 1132-1231, on a document that has a Title paragraph.
fill_template_cover(ps, title, preamble_text, date) ==
    LET t == CHOOSE i \in 1..Len(ps) :
                 /\ ps[i].style = "Title"
                 /\ \A j \in 1..(i - 1) : ps[j].style # "Title"
        filled == FillAfterTitle([ps EXCEPT ![t].text = title], t + 1, 0, date,
                                 preamble_text)
    IN  [i \in 1..(Len(ps) + 1) |->
            IF i <= Len(ps) THEN filled[i] ELSE Par("page_break", "")]

\* Lines 941-967 of _add_title_page: the spacers, the title and the date.
TitlePageHead(title, date) ==
    [i \in 1..6 |-> Par("spacer", "")]
    \o <<Par("title_page_title", title)>>
    \o (IF date # None THEN <<Par("title_page_date", date)>> ELSE <<>>)

\* Lines 969-983 of _add_title_page: what is still to add for the preamble,
\* and the page break that ends the page.
TitlePageTail(preamble_tokens) ==
    [i \in 1..Len(preamble_tokens) |->
        IF preamble_tokens[i] = "paragraph" THEN "centred" ELSE preamble_tokens[i]]
    \o <<"page_break">>

\* Lines 1322-1376: the paragraphs the title logic puts in the document at
\* once (front), and the blocks convert then adds in order (queue).
TitlePlan(paragraphs, tokens, title, date, skip_h1, toc) ==
    LET h1_idx == H1Idx(tokens)
        first_hr_idx == FirstHrIdx(tokens)
        h1_text == IF h1_idx = 0 THEN None ELSE HeadingText
        effective_title == IF title # None THEN title ELSE h1_text
        preamble_tokens == IF h1_idx # 0 /\ first_hr_idx # 0
                           THEN SubSeq(tokens, h1_idx + 1, first_hr_idx - 1)
                           ELSE <<>>
        preamble_flat == JoinParagraphs(preamble_tokens, 1)
        table == IF toc THEN <<"toc">> ELSE <<>>
    IN  IF template_has_cover_page(paragraphs) /\ effective_title # None
        THEN [front |-> fill_template_cover(paragraphs, effective_title,
                                            preamble_flat, date),
              queue |-> table \o
                        (IF first_hr_idx # 0 THEN TokensFrom(tokens, first_hr_idx)
                         ELSE IF h1_idx # 0 THEN TokensFrom(tokens, h1_idx)
                         ELSE tokens)]
        ELSE IF effective_title # None /\ h1_idx # 0 /\ first_hr_idx # 0
        THEN [front |-> paragraphs \o TitlePageHead(effective_title, date)
                        \o (IF preamble_tokens # <<>> THEN <<Par("spacer", "")>>
                            ELSE <<>>),
              queue |-> TitlePageTail(preamble_tokens) \o table \o
                        (IF title # None /\ ~skip_h1 THEN <<tokens[h1_idx]>>
                         ELSE <<>>)
                        \o TokensFrom(tokens, first_hr_idx)]
        ELSE IF effective_title # None /\ h1_idx # 0
        THEN [front |-> paragraphs \o TitlePageHead(effective_title, date),
              queue |-> <<"page_break">> \o table \o
                        (IF title # None /\ ~skip_h1 THEN tokens
                         ELSE TokensFrom(tokens, h1_idx))]
        ELSE [front |-> paragraphs, queue |-> table \o tokens]

\* Lines 816-875 of _render_token, _add_toc (986-1034) and the preamble
\* paragraphs of _add_title_page: the paragraphs one block adds.
RenderedBlock(item) ==
    CASE item = "heading" -> <<Par("Heading 1", HeadingText)>>
      [] item = "paragraph" -> <<Par("Normal", ParagraphText)>>
      [] item = "centred" -> <<Par("centred", ParagraphText)>>
      [] item \in {"thematic_break", "page_break"} -> <<Par("page_break", "")>>
      [] item = "toc" -> <<Par("toc_title", "Table of Contents"),
                           Par("toc_field", ""), Par("page_break", "")>>

\* What add_picture can make of the file a renderer produced.
PictureOutcomes == {"picture", "unreadable", "rejected"}

DiagramName(n) == "Mermaid Diagram " \o ToString(n)

PlaceholderNothing(n, ok, picture) == <<>>

\* Lines 917-925 of _handle_mermaid with _add_image_block (561-576): the
\* paragraphs added for diagram n once render_mermaid returned ok.
MermaidBlocks(n, ok, picture) ==
    IF ok
    THEN (CASE picture = "picture" -> <<Par("picture", DiagramName(n))>>
            [] picture = "unreadable" ->
                   <<Par("placeholder", "[Image: " \o DiagramName(n) \o " - error]")>>
            [] picture = "rejected" ->
                   <<Par("Normal", ""),
                     Par("placeholder", "[Image: " \o DiagramName(n) \o " - error]")>>)
         \o <<Par("spacer", "")>>
    ELSE <<Par("placeholder",
               "[Mermaid diagram " \o ToString(n) \o " could not be rendered]")>>

MdArgs(titles, dates, flags, templates, files, tocs) ==
    [input_is_file : BOOLEAN, title : titles, date : dates, skip_h1 : flags,
     toc : tocs, template : templates, style_file : files,
     cli : Partial(FlagStyle)]

MdStart ==
    /\ md_pc = "main"
    /\ style_overrides = EmptyStyle
    /\ cfg = STYLE_DEFAULTS
    /\ md_doc = <<>>
    /\ render_queue = <<>>
    /\ tok_i = 0
    /\ mermaid_counter = 0
    /\ requests_sent = 0
    /\ renders_run = 0
    /\ resp = "none"
    /\ rendered = "pending"

OthersIdle == FrIdle /\ TrIdle /\ AcIdle /\ ZipIdle /\ FsIdle /\ ValIdle

\* Every input of the title logic, with no style layer but the defaults.
InitTitle ==
    /\ OthersIdle
    /\ md_args \in { a \in MdArgs({None, "T"}, {None, "D"}, BOOLEAN,
                                  {NoTemplate, PlainTemplate(EmptyStyle),
                                   CoverTemplate, BareCoverTemplate},
                                  {NoStyleFile}, BOOLEAN) : a.cli = EmptyStyle }
    /\ markdown \in [inline_style : {EmptyStyle}, tokens : Markdowns]
    /\ requests = TRUE
    /\ MdStart

\* Every combination of the style layers, on one short document.
InitStyle ==
    /\ OthersIdle
    /\ md_args \in MdArgs({None}, {None}, {FALSE},
                          {NoTemplate} \cup
                              { PlainTemplate(t) : t \in Partial(TemplateStyle) },
                          StyleFiles, {FALSE})
    /\ markdown \in [inline_style : Partial(InlineStyle),
                     tokens : {<<"paragraph", "mermaid">>}]
    /\ requests = TRUE
    /\ MdStart

\* Every short document, converted with no option, with and without the
\* requests module.
InitMermaid ==
    /\ OthersIdle
    /\ md_args \in { a \in MdArgs({None}, {None}, {FALSE}, {NoTemplate},
                                  {NoStyleFile}, {FALSE}) : a.cli = EmptyStyle }
    /\ markdown \in [inline_style : {EmptyStyle}, tokens : Markdowns]
    /\ requests \in BOOLEAN
    /\ MdStart

MdOthers == <<frVars, trVars, acVars, zipVars, fsVars, valVars>>

\* Lines 1452-1454 of main.
MdNoInput ==
    /\ md_pc = "main"
    /\ ~md_args.input_is_file
    /\ md_pc' = "exit1"
    /\ UNCHANGED <<md_args, markdown, requests, style_overrides, cfg, md_doc,
                   render_queue, tok_i, mermaid_counter, requests_sent,
                   renders_run, resp, rendered>>
    /\ UNCHANGED MdOthers

\* Lines 1456-1477 of main: the style file, then the flags that were given.
MdMain ==
    /\ md_pc = "main"
    /\ md_args.input_is_file
    /\ style_overrides' =
           Update(IF md_args.style_file.is_file THEN md_args.style_file.style
                  ELSE EmptyStyle,
                  md_args.cli)
    /\ md_pc' = "convert"
    /\ UNCHANGED <<md_args, markdown, requests, cfg, md_doc, render_queue, tok_i,
                   mermaid_counter, requests_sent, renders_run, resp, rendered>>
    /\ UNCHANGED MdOthers

\* Lines 1250-1271 of convert, with _apply_style (329-355).
ConvStyle ==
    /\ md_pc = "convert"
    /\ LET template_style == IF md_args.template.is_file
                             THEN md_args.template.style ELSE EmptyStyle
           inline_style == markdown.inline_style
           merged_style == Update(Update(template_style, style_overrides),
                                  inline_style)
       IN  cfg' = Update(STYLE_DEFAULTS, merged_style)
    /\ md_pc' = "title"
    /\ UNCHANGED <<md_args, markdown, requests, style_overrides, md_doc,
                   render_queue, tok_i, mermaid_counter, requests_sent,
                   renders_run, resp, rendered>>
    /\ UNCHANGED MdOthers

\* Lines 1273-1376 of convert: the document is opened (a template without a
\* cover page is emptied), then the title page and the table of contents.
ConvTitle ==
    /\ md_pc = "title"
    /\ LET opened == IF /\ md_args.template.is_file
                        /\ template_has_cover_page(md_args.template.paragraphs)
                     THEN md_args.template.paragraphs ELSE <<>>
           plan == TitlePlan(opened, markdown.tokens, md_args.title, md_args.date,
                             md_args.skip_h1, md_args.toc)
       IN  /\ md_doc' = plan.front
           /\ render_queue' = plan.queue
    /\ md_pc' = "body"
    /\ UNCHANGED <<md_args, markdown, requests, style_overrides, cfg, tok_i,
                   mermaid_counter, requests_sent, renders_run, resp, rendered>>
    /\ UNCHANGED MdOthers

\* One block that is not a diagram.
RenderToken ==
    /\ md_pc = "body"
    /\ tok_i < Len(render_queue)
    /\ render_queue[tok_i + 1] # "mermaid"
    /\ md_doc' = md_doc \o RenderedBlock(render_queue[tok_i + 1])
    /\ tok_i' = tok_i + 1
    /\ UNCHANGED <<md_pc, md_args, markdown, requests, style_overrides, cfg,
                   render_queue, mermaid_counter, requests_sent, renders_run,
                   resp, rendered>>
    /\ UNCHANGED MdOthers

\* Lines 915-917 of _handle_mermaid: render_mermaid is called.
HandleMermaid ==
    /\ md_pc = "body"
    /\ tok_i < Len(render_queue)
    /\ render_queue[tok_i + 1] = "mermaid"
    /\ mermaid_counter' = mermaid_counter + 1
    /\ requests_sent' = 0
    /\ renders_run' = 0
    /\ resp' = "none"
    /\ rendered' = "pending"
    /\ md_pc' = "remote"
    /\ UNCHANGED <<md_args, markdown, requests, style_overrides, cfg, md_doc,
                   render_queue, tok_i>>
    /\ UNCHANGED MdOthers

\* Lines 388-397 of render_mermaid: has_url is whether generate_mermaid_url
\* gave a URL for the code, outcome what the request to it came to.
RenderRemote ==
    /\ md_pc = "remote"
    /\ \E has_url \in BOOLEAN, outcome \in {"ok", "failed"} :
           IF has_url /\ requests
           THEN /\ requests_sent' = requests_sent + 1
                /\ resp' = outcome
                /\ rendered' = IF outcome = "ok" THEN "True" ELSE rendered
                /\ md_pc' = IF outcome = "ok" THEN "returned" ELSE "local"
           ELSE /\ md_pc' = "local"
                /\ UNCHANGED <<requests_sent, resp, rendered>>
    /\ UNCHANGED <<md_args, markdown, requests, style_overrides, cfg, md_doc,
                   render_queue, tok_i, mermaid_counter, renders_run>>
    /\ UNCHANGED MdOthers

\* Lines 399-420 of render_mermaid: cli is whether check_mermaid_cli found
\* the renderer, outcome what its run came to.
RenderLocal ==
    /\ md_pc = "local"
    /\ \E cli \in BOOLEAN, outcome \in {"ok", "error", "no_file", "exception"} :
           IF cli
           THEN /\ renders_run' = renders_run + 1
                /\ rendered' = IF outcome = "ok" THEN "True" ELSE "False"
           ELSE /\ rendered' = "False"
                /\ UNCHANGED renders_run
    /\ md_pc' = "returned"
    /\ UNCHANGED <<md_args, markdown, requests, style_overrides, cfg, md_doc,
                   render_queue, tok_i, mermaid_counter, requests_sent, resp>>
    /\ UNCHANGED MdOthers

\* Lines 917-925 of _handle_mermaid: the image or the placeholder.
PlaceMermaid ==
    /\ md_pc = "returned"
    /\ \E picture \in PictureOutcomes :
           md_doc' = md_doc \o MermaidBlocks(mermaid_counter, rendered = "True",
                                             picture)
    /\ tok_i' = tok_i + 1
    /\ md_pc' = "body"
    /\ UNCHANGED <<md_args, markdown, requests, style_overrides, cfg,
                   render_queue, mermaid_counter, requests_sent, renders_run,
                   resp, rendered>>
    /\ UNCHANGED MdOthers

\* Lines 1386-1392 of convert: doc.save.
ConvSave ==
    /\ md_pc = "body"
    /\ tok_i = Len(render_queue)
    /\ md_pc' = "saved"
    /\ UNCHANGED <<md_args, markdown, requests, style_overrides, cfg, md_doc,
                   render_queue, tok_i, mermaid_counter, requests_sent,
                   renders_run, resp, rendered>>
    /\ UNCHANGED MdOthers

NextConvert ==
    \/ MdNoInput
    \/ MdMain
    \/ ConvStyle
    \/ ConvTitle
    \/ RenderToken
    \/ HandleMermaid
    \/ RenderRemote
    \/ RenderLocal
    \/ PlaceMermaid
    \/ ConvSave

SpecTitle == InitTitle /\ [][NextConvert]_vars

SpecStyle == InitStyle /\ [][NextConvert]_vars

SpecMermaid == InitMermaid /\ [][NextConvert]_vars

(***************************************************************************)
(* C24  For each diagram render_mermaid sends at most one remote request   *)
(* and runs the local renderer at most once, the local run only when the   *)
(* remote request failed or was not made; it returns True or False, and    *)
(* _handle_mermaid then adds one picture or one placeholder for it, so     *)
(* that the saved document holds a picture or placeholder for every        *)
(* diagram and every other block as well.                                  *)
(***************************************************************************)
DiagramsAmong(items, n) ==
    Cardinality({ i \in 1..n : items[i] = "mermaid" })

Styled(paragraphs, styles) ==
    Cardinality({ i \in 1..Len(paragraphs) : paragraphs[i].style \in styles })

Showing(paragraphs, text) ==
    Cardinality({ i \in 1..Len(paragraphs) : paragraphs[i].text = text })

Queued(items, types) ==
    Cardinality({ i \in 1..Len(items) : items[i] \in types })

StyleResolved == md_pc \notin {"idle", "main", "convert", "exit1"}

HighestLayer(k) ==
    IF k \in DOMAIN md_args.cli THEN md_args.cli[k]
    ELSE IF k \in DOMAIN markdown.inline_style THEN markdown.inline_style[k]
    ELSE IF md_args.style_file.is_file /\ k \in DOMAIN md_args.style_file.style
         THEN md_args.style_file.style[k]
    ELSE IF md_args.template.is_file /\ k \in DOMAIN md_args.template.style
         THEN md_args.template.style[k]
    ELSE STYLE_DEFAULTS[k]

C25_StylePriority ==
    StyleResolved => \A k \in StyleKeys : cfg[k] = HighestLayer(k)

(***************************************************************************)
(* C26  When --title is given, the saved document has a title page that    *)
(* shows the title, and the --date when one is given.                      *)
(***************************************************************************)
TitleShown ==
    \E i \in 1..Len(md_doc) :
        /\ md_doc[i].style \in {"title_page_title", "Title"}
        /\ md_doc[i].text = md_args.title

DateShown == \E i \in 1..Len(md_doc) : md_doc[i].text = md_args.date

C26_TitlePage ==
    (md_pc = "saved" /\ md_args.title # None) =>
        /\ TitleShown
        /\ md_args.date # None => DateShown

====
